---- MODULE Spec2Model ----
(***************************************************************************)
(* Fronius Modbus -> MQTT bridge: the connection state machine of          *)
(* controller.py together with the two collaborators it drives             *)
(* (ModbusClient of modbus_client.py, MQTTPublisher of mqtt_publisher.py). *)
(*                                                                         *)
(* An Optional[...] value is a sequence: <<>> is None, <<v>> is v.         *)
(***************************************************************************)
EXTENDS Integers, Sequences, FiniteSets, TLC

VARIABLES
    state,      \* the ConnectionState instance handed to the three handlers
    diagnostic_discovery_published,
                \* the discovery-published attribute a caller of the handlers puts
                \* on its ConnectionState (the dataclass declares no such field)
    mb,         \* ModbusClient: _device is not None, _connected, 160 in _device.models
    pub,        \* MQTTPublisher: _connected, _device_id, network loop running
    discovery_due,
                \* history: the bus link went from disconnected to connected and
                \* publish_discovery has not been called since
    op,         \* the operation that made the last step
    prev,       \* the ConnectionState before the last handler call
    ret,        \* what the last handler call returned
    calls,      \* the collaborator calls the last handler call made, in order
    pc,         \* where FroniusBridgeController.run() stands ("caller" when the
                \* handlers are called without it)
    now,        \* time.time(), in seconds
    next_poll_time,
                \* run(): the absolute time the next poll is due
    poll_interval,
                \* config.poll_interval
    sleep_time, \* run(): the sleep time calculate_sleep_time returned last
    sched,      \* history: the due time and the clock the last calculate_sleep_time
                \* call was given, and whether it reset the schedule
    grid_origin,
                \* history: the time next_poll_time was last set to other than by
                \* adding poll_interval to it
    resynced,   \* history: calculate_sleep_time has reset the schedule
    iter_calls, \* history: the collaborator calls of the current loop iteration
    interrupted,
                \* history: the process was interrupted
    call,       \* the last direct call of a function of modbus_client.py or
                \* mqtt_publisher.py: its name, its inputs and what it returned
    faults      \* environment: whether calls of the collaborators may still fail

runVars == <<pc, now, next_poll_time, poll_interval, sleep_time, sched,
             grid_origin, resynced, iter_calls, interrupted>>

vars == <<state, diagnostic_discovery_published, mb, pub, discovery_due,
          op, prev, ret, calls, pc, now, next_poll_time, poll_interval,
          sleep_time, sched, grid_origin, resynced, iter_calls, interrupted,
          call, faults>>

----------------------------------------------------------------------------
(* Bounds of the model *)

\* retry counters are explored up to this value
MaxRetry == 8

\* the run loop is explored until the clock reaches this time
MaxTime == 6

\* the poll intervals of the run loop are 1..MaxInterval seconds
MaxInterval == 2

\* one cycle's read and publish take up to this many seconds
MaxWork == 3

\* format_state is called with the codes -MaxCode..MaxCode and with None
MaxCode == 12

\* read_mppt_data is called on blocks of 0..MaxModules modules
MaxModules == 2

----------------------------------------------------------------------------
(* Values *)

None == <<>>

Some(v) == <<v>>

\* the identity read_device_info returns for the one field device
DeviceInfo == "SN"

\* default of exponential_backoff's max_delay parameter
max_delay == 60

Min(a, b) == IF a <= b THEN a ELSE b

Call(m, r) == [m |-> m, ok |-> r]

\* ConnectionState(): the dataclass defaults
ConnectionState ==
    [modbus_connected      |-> FALSE,
     mqtt_connected        |-> FALSE,
     model_160_verified    |-> FALSE,
     device_info           |-> None,
     modbus_retry_count    |-> 0,
     mqtt_retry_count      |-> 0,
     model_160_retry_count |-> 0]

----------------------------------------------------------------------------
(* controller.exponential_backoff *)

\* faulty variant: the cap is forgotten
exponential_backoff_uncapped(attempt) == 2 ^ attempt

exponential_backoff(attempt) == Min(2 ^ attempt, max_delay)

----------------------------------------------------------------------------
(* ModbusClient *)

ModbusClientInit == [device |-> FALSE, connected |-> FALSE, has160 |-> FALSE]

\* connect(): a new device is created and scanned; `ok` is whether neither raised,
\* `has160` whether the scan found model 160
mb_connect(m, ok, has160) ==
    IF ok
    THEN [device |-> TRUE, connected |-> TRUE, has160 |-> has160]
    ELSE [device |-> FALSE, connected |-> FALSE, has160 |-> FALSE]

verify_model_160(m) == m.device /\ m.has160

\* read_device_info(): `ok` is whether model 1 is there and its read did not raise
read_device_info(m, ok) == IF m.device /\ ok THEN Some(DeviceInfo) ELSE None

\* read_mppt_data() is not None: `ok` is whether the block read did not raise and
\* reported at least one module
read_mppt_data(m, ok) == m.device /\ m.has160 /\ ok

----------------------------------------------------------------------------
(* MQTTPublisher *)

MQTTPublisherInit == [connected |-> FALSE, device_id |-> None, loop |-> FALSE]

ConnectOutcomes == {"raised", "refused", "established", "timeout"}

\* connect(): _connected is reset, the client connects, the loop starts and the
\* on_connect callback is awaited
mqtt_connect(p, outcome) ==
    CASE outcome = "raised"      -> [p EXCEPT !.connected = FALSE]
      [] outcome = "refused"     -> [p EXCEPT !.connected = FALSE]
      [] outcome = "established" -> [p EXCEPT !.connected = TRUE, !.loop = TRUE]
      [] outcome = "timeout"     -> [p EXCEPT !.connected = FALSE, !.loop = FALSE]

mqtt_connect_result(outcome) == outcome = "established"

\* _on_connect / _on_disconnect, run by the client's network thread
Callbacks == {"none", "on_connect_ok", "on_connect_refused", "on_disconnect"}

callback(p, cb) ==
    CASE cb = "none"               -> p
      [] cb = "on_connect_ok"      -> [p EXCEPT !.connected = TRUE]
      [] cb = "on_connect_refused" -> [p EXCEPT !.connected = FALSE]
      [] cb = "on_disconnect"      -> [p EXCEPT !.connected = FALSE]

\* the callbacks the network thread can deliver while publisher p is used
CallbacksOf(p) == IF p.loop THEN Callbacks ELSE {"none"}

is_connected(p) == p.connected

\* publish_discovery(device_info): `brokerOK` is whether every broker publish
\* returned MQTT_ERR_SUCCESS
publish_discovery(p, info, brokerOK) ==
    IF ~p.connected
    THEN [pub |-> p, ok |-> FALSE]
    ELSE [pub |-> [p EXCEPT !.device_id = info], ok |-> brokerOK]

publish_sensor_data(p, brokerOK) ==
    p.connected /\ p.device_id # None /\ brokerOK

----------------------------------------------------------------------------
(* controller.py: the assignments of the three handlers, branch by branch *)

Return(ok, delay) == Some([ok |-> ok, delay |-> delay])

\* faulty variant: the early return is missing
already_connected_never(flag) == FALSE

\* the guards `if state.modbus_connected:` and `if state.mqtt_connected:`
already_connected(flag) == flag

\* faulty variant: the retry counter is not reset
on_modbus_connected_keeps_count(s) ==
    [s EXCEPT !.modbus_connected = TRUE]

\* handle_modbus_connection, connect() returned True
on_modbus_connected(s) ==
    [s EXCEPT !.modbus_connected = TRUE, !.modbus_retry_count = 0]

\* faulty variant: a missing device identity leaves the link unverified
on_model_160_verified_requires_info(s, info) ==
    IF info = None
    THEN s
    ELSE [s EXCEPT !.model_160_verified = TRUE,
                   !.model_160_retry_count = 0,
                   !.device_info = info]

\* handle_modbus_connection, verify_model_160() returned True
on_model_160_verified(s, info) ==
    [s EXCEPT !.model_160_verified = TRUE,
              !.model_160_retry_count = 0,
              !.device_info = info]

\* faulty variant: a failed verification also marks the bus as disconnected
on_model_160_missing_drops_mqtt(s) ==
    [s EXCEPT !.modbus_connected = FALSE, !.model_160_verified = FALSE,
              !.model_160_retry_count = @ + 1, !.mqtt_connected = FALSE]

\* faulty variant: the connected flag is not reverted
on_model_160_missing_stays_connected(s) ==
    [s EXCEPT !.model_160_verified = FALSE,
              !.model_160_retry_count = @ + 1]

\* handle_modbus_connection, verify_model_160() returned False
on_model_160_missing(s) ==
    [s EXCEPT !.modbus_connected = FALSE,
              !.model_160_verified = FALSE,
              !.model_160_retry_count = @ + 1]

\* faulty variant: a failed telemetry connect also resets the bus counter
on_modbus_connect_failed_resets_mqtt(s) ==
    [s EXCEPT !.modbus_retry_count = @ + 1, !.mqtt_retry_count = 0]

\* handle_modbus_connection, connect() returned False
on_modbus_connect_failed(s) ==
    [s EXCEPT !.modbus_retry_count = @ + 1]

\* faulty variant: the bus counter is not reset on success
on_mqtt_connected_keeps_count(s) ==
    [s EXCEPT !.mqtt_connected = TRUE]

\* handle_mqtt_connection, connect() returned True
on_mqtt_connected(s) ==
    [s EXCEPT !.mqtt_connected = TRUE, !.mqtt_retry_count = 0]

\* handle_mqtt_connection, connect() returned False
on_mqtt_connect_failed(s) ==
    [s EXCEPT !.mqtt_retry_count = @ + 1]

\* faulty variant: the loss of the bus also drops the telemetry link
on_mqtt_lost_drops_modbus(s) ==
    [s EXCEPT !.mqtt_connected = FALSE, !.modbus_connected = FALSE,
              !.model_160_verified = FALSE]

\* handle_data_polling, publish failed and is_connected() returned False
on_mqtt_lost(s) ==
    [s EXCEPT !.mqtt_connected = FALSE]

\* faulty variant: a failed publish demotes the bus flag whatever the bus says
on_publish_failed_demotes(s) ==
    [s EXCEPT !.mqtt_connected = FALSE]

\* handle_data_polling, publish failed and is_connected() returned True: the
\* warning is logged and nothing is assigned
on_publish_failed_still_connected(s) == s

\* faulty variant: only the verified flag is cleared
on_read_failure_keeps_connected(s) ==
    [s EXCEPT !.model_160_verified = FALSE]

\* faulty variant: only the connected flag is cleared
on_read_failure_keeps_verified(s) ==
    [s EXCEPT !.modbus_connected = FALSE]

\* faulty variant: the read failure also drops the bus link
on_read_failure_drops_mqtt(s) ==
    [s EXCEPT !.modbus_connected = FALSE, !.model_160_verified = FALSE,
              !.mqtt_connected = FALSE]

\* handle_data_polling, read_mppt_data() returned None
on_read_failure(s) ==
    [s EXCEPT !.modbus_connected = FALSE, !.model_160_verified = FALSE]

\* faulty variant: the delay is computed from the counter after it is incremented
retry_delay_after_increment(count) == exponential_backoff(count + 1)

\* the delay of a failure: computed from the counter before it is incremented
retry_delay(count) == exponential_backoff(count)

----------------------------------------------------------------------------
(* controller.handle_modbus_connection *)

\* faulty variant: a device left by an earlier connect() is verified again
\* without a new connect()
handle_modbus_connection_reuses_device(s, m, connOK, has160, infoOK) ==
    IF already_connected(s.modbus_connected)
    THEN [state |-> s, mb |-> m, ret |-> Return(TRUE, None), calls |-> <<>>]
    ELSE
      IF m.device
      THEN
        LET s1 == on_modbus_connected(s) IN
        IF verify_model_160(m)
        THEN
          LET info == read_device_info(m, infoOK) IN
          [state |-> on_model_160_verified(s1, info),
           mb    |-> m,
           ret   |-> Return(TRUE, None),
           calls |-> <<Call("verify_model_160", TRUE),
                       Call("read_device_info", info # None)>>]
        ELSE
          [state |-> on_model_160_missing(s1),
           mb    |-> m,
           ret   |-> Return(FALSE, Some(retry_delay(s1.model_160_retry_count))),
           calls |-> <<Call("verify_model_160", FALSE)>>]
      ELSE
        LET m1 == mb_connect(m, connOK, has160) IN
        IF connOK
        THEN
          LET s1 == on_modbus_connected(s) IN
          IF verify_model_160(m1)
          THEN
            LET info == read_device_info(m1, infoOK) IN
            [state |-> on_model_160_verified(s1, info),
             mb    |-> m1,
             ret   |-> Return(TRUE, None),
             calls |-> <<Call("connect", TRUE), Call("verify_model_160", TRUE),
                         Call("read_device_info", info # None)>>]
          ELSE
            [state |-> on_model_160_missing(s1),
             mb    |-> m1,
             ret   |-> Return(FALSE, Some(retry_delay(s1.model_160_retry_count))),
             calls |-> <<Call("connect", TRUE), Call("verify_model_160", FALSE)>>]
        ELSE
          [state |-> on_modbus_connect_failed(s),
           mb    |-> m1,
           ret   |-> Return(FALSE, Some(retry_delay(s.modbus_retry_count))),
           calls |-> <<Call("connect", FALSE)>>]

handle_modbus_connection(s, m, connOK, has160, infoOK) ==
    IF already_connected(s.modbus_connected)
    THEN [state |-> s, mb |-> m, ret |-> Return(TRUE, None), calls |-> <<>>]
    ELSE
      LET m1 == mb_connect(m, connOK, has160) IN
      IF connOK
      THEN
        LET s1 == on_modbus_connected(s) IN
        IF verify_model_160(m1)
        THEN
          LET info == read_device_info(m1, infoOK) IN
          [state |-> on_model_160_verified(s1, info),
           mb    |-> m1,
           ret   |-> Return(TRUE, None),
           calls |-> <<Call("connect", TRUE), Call("verify_model_160", TRUE),
                       Call("read_device_info", info # None)>>]
        ELSE
          [state |-> on_model_160_missing(s1),
           mb    |-> m1,
           ret   |-> Return(FALSE, Some(retry_delay(s1.model_160_retry_count))),
           calls |-> <<Call("connect", TRUE), Call("verify_model_160", FALSE)>>]
      ELSE
        [state |-> on_modbus_connect_failed(s),
         mb    |-> m1,
         ret   |-> Return(FALSE, Some(retry_delay(s.modbus_retry_count))),
         calls |-> <<Call("connect", FALSE)>>]

----------------------------------------------------------------------------
(* controller.handle_mqtt_connection *)

\* discovery_due after the network thread delivered callback cb to publisher p
due_after_callback(p, cb, due) ==
    IF cb = "on_connect_ok" /\ ~p.connected THEN TRUE ELSE due

\* cb: the callback delivered between connect() returning and publish_discovery
handle_mqtt_connection(s, p, due, outcome, cb, brokerOK) ==
    IF already_connected(s.mqtt_connected)
    THEN [state |-> s, pub |-> p, due |-> due,
          ret |-> Return(TRUE, None), calls |-> <<>>]
    ELSE
      LET p1 == mqtt_connect(p, outcome) IN
      IF mqtt_connect_result(outcome)
      THEN
        LET s1 == on_mqtt_connected(s) IN
        IF s1.device_info # None
        THEN
          LET p2 == callback(p1, cb)
              d  == publish_discovery(p2, s1.device_info, brokerOK)
          IN [state |-> s1, pub |-> d.pub, due |-> FALSE,
              ret   |-> Return(TRUE, None),
              calls |-> <<Call("connect", TRUE), Call("publish_discovery", d.ok)>>]
        ELSE
          [state |-> s1, pub |-> p1, due |-> TRUE,
           ret   |-> Return(TRUE, None),
           calls |-> <<Call("connect", TRUE)>>]
      ELSE
        [state |-> on_mqtt_connect_failed(s), pub |-> p1, due |-> due,
         ret   |-> Return(FALSE, Some(retry_delay(s.mqtt_retry_count))),
         calls |-> <<Call("connect", FALSE)>>]

----------------------------------------------------------------------------
(* controller.handle_data_polling *)

\* faulty variant: the early return of handle_data_polling is missing
polling_enabled_always(s) == TRUE

\* the guard `if not (state.modbus_connected and state.model_160_verified): return`
polling_enabled(s) == s.modbus_connected /\ s.model_160_verified

\* cb: the callback delivered between publish_sensor_data returning False and
\* is_connected()
handle_data_polling(s, m, p, due, readOK, brokerOK, cb) ==
    IF ~polling_enabled(s)
    THEN [state |-> s, pub |-> p, due |-> due, calls |-> <<>>]
    ELSE
      IF read_mppt_data(m, readOK)
      THEN
        IF s.mqtt_connected
        THEN
          IF ~publish_sensor_data(p, brokerOK)
          THEN
            LET p1 == callback(p, cb) IN
            [state |-> IF ~is_connected(p1) THEN on_mqtt_lost(s)
                       ELSE on_publish_failed_still_connected(s),
             pub   |-> p1,
             due   |-> due_after_callback(p, cb, due),
             calls |-> <<Call("read_mppt_data", TRUE),
                         Call("publish_sensor_data", FALSE),
                         Call("is_connected", is_connected(p1))>>]
          ELSE
            [state |-> s, pub |-> p, due |-> due,
             calls |-> <<Call("read_mppt_data", TRUE),
                         Call("publish_sensor_data", TRUE)>>]
        ELSE
          [state |-> s, pub |-> p, due |-> due,
           calls |-> <<Call("read_mppt_data", TRUE)>>]
      ELSE
        [state |-> on_read_failure(s), pub |-> p, due |-> due,
         calls |-> <<Call("read_mppt_data", FALSE)>>]

----------------------------------------------------------------------------
(* controller.calculate_sleep_time and the collaborators' disconnect() *)

\* faulty variant: the schedule is reset at exactly one interval behind
calculate_sleep_time_resets_at_one_interval(next, t, interval) ==
    IF next - t <= -interval
    THEN [sleep |-> 0, next |-> t + interval, reset |-> TRUE]
    ELSE [sleep |-> next - t, next |-> next + interval, reset |-> FALSE]

\* faulty variant: the schedule is never reset
calculate_sleep_time_never_resets(next, t, interval) ==
    [sleep |-> next - t, next |-> next + interval, reset |-> FALSE]

\* faulty variant: the next due time is counted from the clock
calculate_sleep_time_from_now(next, t, interval) ==
    IF next - t < -interval
    THEN [sleep |-> 0, next |-> t + interval, reset |-> TRUE]
    ELSE [sleep |-> next - t, next |-> t + interval, reset |-> FALSE]

\* calculate_sleep_time(next_poll_time, poll_interval) with time.time() = t:
\* the pair it returns, and whether it took the branch that resets the schedule
calculate_sleep_time(next, t, interval) ==
    IF next - t < -interval
    THEN [sleep |-> 0, next |-> t + interval, reset |-> TRUE]
    ELSE [sleep |-> next - t, next |-> next + interval, reset |-> FALSE]

\* faulty variant: an error of the device's close() leaves disconnect()
mb_disconnect_propagates(m, closeRaises) ==
    IF m.device
    THEN [mb |-> ModbusClientInit, closed |-> TRUE, raised |-> closeRaises]
    ELSE [mb |-> m, closed |-> FALSE, raised |-> FALSE]

\* ModbusClient.disconnect(): `closeRaises` is whether _device.close() raises;
\* `closed` is whether close() was called, `raised` whether disconnect() raised
mb_disconnect(m, closeRaises) ==
    IF m.device
    THEN [mb |-> ModbusClientInit, closed |-> TRUE, raised |-> FALSE]
    ELSE [mb |-> m, closed |-> FALSE, raised |-> FALSE]

\* what can raise inside MQTTPublisher.disconnect()
DisconnectErrors == {"none", "loop_stop", "disconnect"}

\* MQTTPublisher.disconnect(): the loop is stopped unless loop_stop() raised
mqtt_disconnect(p, err) ==
    [pub    |-> [p EXCEPT !.connected = FALSE,
                          !.loop = (p.loop /\ err = "loop_stop")],
     raised |-> FALSE]

\* faulty variant: an error raised while reading a snapshot is not caught
propagates_read_errors(m) == m = "read_mppt_data"

\* whether an error raised inside collaborator method m leaves the method:
\* every method body is wrapped in try / except Exception
propagates(m) == FALSE

\* some failed call of the log cs raised its error into run()
Escaped(cs) == \E i \in 1..Len(cs) : ~cs[i].ok /\ propagates(cs[i].m)

----------------------------------------------------------------------------
(* mqtt_publisher.py: the messages of publish_discovery and publish_sensor_data *)

\* the sensors, in the order both methods publish them
SENSORS ==
    <<"pv1_voltage", "pv1_current", "pv1_power",
      "pv2_voltage", "pv2_current", "pv2_power", "total_power">>

\* what one self._client.publish(...) call does: it returns MQTT_ERR_SUCCESS,
\* returns another rc, or raises
PublishOutcomes == {"success", "error", "raises"}

\* a discovery message: {prefix}/sensor/{device_id}/{sensor_id}/config
config_message(device_id, sensor_id) ==
    [topic |-> "config", device_id |-> device_id, sensor_id |-> sensor_id,
     qos |-> 1, retain |-> TRUE]

\* a state message: {prefix}/sensor/{device_id}/{sensor_id}/state
state_message(device_id, sensor_id) ==
    [topic |-> "state", device_id |-> device_id, sensor_id |-> sensor_id,
     qos |-> 0, retain |-> FALSE]

\* faulty variant: the loop goes on after a publish that did not succeed
RECURSIVE publish_each_continues(_, _, _, _)
publish_each_continues(messages, rcs, i, published) ==
    IF i > Len(messages)
    THEN [ok |-> \A j \in 1..Len(messages) : rcs[j] = "success",
          published |-> published]
    ELSE publish_each_continues(messages, rcs, i + 1, Append(published, messages[i]))

\* the publish loop from message i on: rcs[i] is the outcome of the i-th
\* publish call; `published` lists the publish calls made
RECURSIVE publish_each(_, _, _, _)
publish_each(messages, rcs, i, published) ==
    IF i > Len(messages)
    THEN [ok |-> TRUE, published |-> published]
    ELSE IF rcs[i] = "success"
         THEN publish_each(messages, rcs, i + 1, Append(published, messages[i]))
         ELSE [ok |-> FALSE, published |-> Append(published, messages[i])]

\* publish_discovery: `if not self._connected: return False`
discovery_refused(p) == ~p.connected

\* faulty variant: the device id is not required
sensor_data_refused_if_disconnected(p) == ~p.connected

\* publish_sensor_data: the two guards before the try block
sensor_data_refused(p) == ~p.connected \/ p.device_id = None

\* publish_discovery(device_info) with the outcomes rcs of its publish calls:
\* the publisher afterwards, the value returned and the publish calls made
publish_discovery_result(p, info, rcs) ==
    IF discovery_refused(p)
    THEN [pub |-> p, ok |-> FALSE, published |-> <<>>]
    ELSE LET r == publish_each([i \in 1..Len(SENSORS) |-> config_message(info, SENSORS[i])],
                               rcs, 1, <<>>)
         IN [pub |-> [p EXCEPT !.device_id = info], ok |-> r.ok,
             published |-> r.published]

\* publish_sensor_data(mppt_data) with the outcomes rcs of its publish calls
publish_sensor_data_result(p, rcs) ==
    IF sensor_data_refused(p)
    THEN [pub |-> p, ok |-> FALSE, published |-> <<>>]
    ELSE LET r == publish_each([i \in 1..Len(SENSORS) |-> state_message(p.device_id, SENSORS[i])],
                               rcs, 1, <<>>)
         IN [pub |-> p, ok |-> r.ok, published |-> r.published]

----------------------------------------------------------------------------
(* modbus_client.py: OperatingStateFormatter and ModuleEventsDecoder *)

\* OperatingStateFormatter.STATE_NAMES, keyed 1..10
STATE_NAMES ==
    <<"OFF", "SLEEPING", "STARTING", "MPPT", "THROTTLED", "SHUTTING_DOWN",
      "FAULT", "STANDBY", "TEST", "RESERVED_10">>

DecimalDigits == <<"0", "1", "2", "3", "4", "5", "6", "7", "8", "9">>

RECURSIVE format_natural(_)
format_natural(n) ==
    IF n < 10
    THEN DecimalDigits[n + 1]
    ELSE format_natural(n \div 10) \o DecimalDigits[(n % 10) + 1]

\* faulty variant: the sign is dropped
format_int_unsigned(n) == IF n < 0 THEN format_natural(-n) ELSE format_natural(n)

\* the text an f-string puts for the integer n
format_int(n) == IF n < 0 THEN "-" \o format_natural(-n) ELSE format_natural(n)

\* OperatingStateFormatter.format_state(state_value)
format_state(state_value) ==
    IF state_value = None
    THEN "unknown"
    ELSE IF state_value[1] \in DOMAIN STATE_NAMES
         THEN STATE_NAMES[state_value[1]]
         ELSE "unknown_" \o format_int(state_value[1])

\* faulty variant: two entries of the table changed places
EVENT_NAMES_unordered ==
    << <<0, "GROUND_FAULT">>, <<1, "INPUT_OVER_VOLTAGE">>, <<3, "DC_DISCONNECT">>,
       <<5, "CABINET_OPEN">>, <<6, "MANUAL_SHUTDOWN">>, <<7, "OVER_TEMP">>,
       <<13, "UNDER_TEMP">>, <<12, "BLOWN_FUSE">>, <<14, "MEMORY_LOSS">>,
       <<15, "ARC_DETECTION">>, <<20, "TEST_FAILED">>,
       <<21, "INPUT_UNDER_VOLTAGE">>, <<22, "INPUT_OVER_CURRENT">> >>

\* ModuleEventsDecoder.EVENT_NAMES, in the order the dict holds its items
EVENT_NAMES ==
    << <<0, "GROUND_FAULT">>, <<1, "INPUT_OVER_VOLTAGE">>, <<3, "DC_DISCONNECT">>,
       <<5, "CABINET_OPEN">>, <<6, "MANUAL_SHUTDOWN">>, <<7, "OVER_TEMP">>,
       <<12, "BLOWN_FUSE">>, <<13, "UNDER_TEMP">>, <<14, "MEMORY_LOSS">>,
       <<15, "ARC_DETECTION">>, <<20, "TEST_FAILED">>,
       <<21, "INPUT_UNDER_VOLTAGE">>, <<22, "INPUT_OVER_CURRENT">> >>

\* events_bitfield & (1 << bit_position) is not zero
bit_is_set(events_bitfield, bit_position) ==
    (events_bitfield \div (2 ^ bit_position)) % 2 = 1

\* ", ".join(names)
RECURSIVE join(_)
join(names) ==
    IF names = <<>> THEN ""
    ELSE IF Len(names) = 1 THEN names[1]
    ELSE names[1] \o ", " \o join(Tail(names))

\* the loop over EVENT_NAMES.items(): the names appended from entry i on
RECURSIVE active_events(_, _)
active_events(events_bitfield, i) ==
    IF i > Len(EVENT_NAMES) THEN <<>>
    ELSE IF bit_is_set(events_bitfield, EVENT_NAMES[i][1])
         THEN <<EVENT_NAMES[i][2]>> \o active_events(events_bitfield, i + 1)
         ELSE active_events(events_bitfield, i + 1)

\* ModuleEventsDecoder.decode_events(events_bitfield)
decode_events(events_bitfield) ==
    IF events_bitfield = None
    THEN "unavailable"
    ELSE IF events_bitfield[1] = 0
         THEN "No active events"
         ELSE LET names == active_events(events_bitfield[1], 1) IN
              IF names # <<>> THEN join(names) ELSE "No active events"

----------------------------------------------------------------------------
(* modbus_client.py: DiagnosticData.create and ModbusClient.read_mppt_data,  *)
(* a function of what the device's model 160 block holds.  Reading a point   *)
(* of a module gives a value, None, no such attribute, or raises.            *)

Val(v) == [k |-> "value", v |-> v]

Nil == [k |-> "None", v |-> 0]

Absent == [k |-> "absent", v |-> 0]

Raising(e) == [k |-> e, v |-> 0]

ExceptionKinds == {"AttributeError", "ValueError", "TypeError", "OtherError"}

raises(x) == x.k \in ExceptionKinds

\* faulty variant: the formatted state does not come from the raw state
DiagnosticData_create_unformatted(temperature, operating_state, module_events) ==
    [temperature      |-> temperature,
     operating_state  |-> operating_state,
     module_events    |-> module_events,
     formatted_state  |-> "unknown",
     formatted_events |-> decode_events(module_events)]

\* DiagnosticData.create(temperature, operating_state, module_events)
DiagnosticData_create(temperature, operating_state, module_events) ==
    [temperature      |-> temperature,
     operating_state  |-> operating_state,
     module_events    |-> module_events,
     formatted_state  |-> format_state(operating_state),
     formatted_events |-> decode_events(module_events)]

MPPTChannelData(voltage, current, power) ==
    [voltage |-> voltage, current |-> current, power |-> power]

MPPTModuleData(voltage, current, power, diagnostics) ==
    [voltage |-> voltage, current |-> current, power |-> power,
     diagnostics |-> diagnostics]

\* float(x.cvalue) if x.cvalue is not None else 0.0
core_value(x) == IF x.k = "value" THEN x.v ELSE 0

\* the exceptions the try around one diagnostic field catches
DiagnosticCaught == {"AttributeError", "ValueError", "TypeError"}

\* a diagnostic field's try block: the value, or None when the attribute is
\* missing, the value is None or a caught exception was raised
diagnostic_value(x) == IF x.k = "value" THEN Some(x.v) ELSE None

\* the exception raised while reading the field leaves the field's try block
diagnostic_escapes(x) == raises(x) /\ x.k \notin DiagnosticCaught

\* an exception reaches `except Exception` of the loop body for module m
module_read_raises(m) ==
    \/ raises(m.DCV) \/ raises(m.DCA) \/ raises(m.DCW)
    \/ diagnostic_escapes(m.Tmp)
    \/ diagnostic_escapes(m.DCSt)
    \/ diagnostic_escapes(m.DCEvt)

\* faulty variant: a failed module keeps the power read before the failure
failed_module_keeps_power(m) ==
    [channel |-> MPPTChannelData(0, 0, core_value(m.DCW)),
     module  |-> MPPTModuleData(0, 0, core_value(m.DCW),
                                DiagnosticData_create(None, None, None)),
     power   |-> core_value(m.DCW)]

\* the except branch of the loop body: what is appended for a failed module,
\* and what it adds to total_power
failed_module(m) ==
    [channel |-> MPPTChannelData(0, 0, 0),
     module  |-> MPPTModuleData(0, 0, 0, DiagnosticData_create(None, None, None)),
     power   |-> 0]

\* the try branch of the loop body
read_module(m) ==
    IF module_read_raises(m)
    THEN failed_module(m)
    ELSE LET voltage == core_value(m.DCV)
             current == core_value(m.DCA)
             power   == core_value(m.DCW)
             diagnostic_data ==
                 DiagnosticData_create(diagnostic_value(m.Tmp),
                                       diagnostic_value(m.DCSt),
                                       diagnostic_value(m.DCEvt))
         IN [channel |-> MPPTChannelData(voltage, current, power),
             module  |-> MPPTModuleData(voltage, current, power, diagnostic_data),
             power   |-> power]

\* for i in range(num_modules): the lists and the total after modules i..N
RECURSIVE read_modules(_, _, _)
read_modules(module, i, acc) ==
    IF i > Len(module)
    THEN acc
    ELSE LET r == read_module(module[i]) IN
         read_modules(module, i + 1,
                      [mppt_channels |-> Append(acc.mppt_channels, r.channel),
                       modules_with_diagnostics |->
                           Append(acc.modules_with_diagnostics, r.module),
                       total_power |-> acc.total_power + r.power])

\* faulty variant: the missing channel is a copy of the first
pad_channels_repeats(mppt_channels) == Append(mppt_channels, mppt_channels[1])

\* while len(mppt_channels) < 2: append a zero channel
RECURSIVE pad_channels(_)
pad_channels(mppt_channels) ==
    IF Len(mppt_channels) < 2
    THEN pad_channels(Append(mppt_channels, MPPTChannelData(0, 0, 0)))
    ELSE mppt_channels

\* faulty variant: the two channels change places
MPPTData_swapped(acc) ==
    [mppt1       |-> (acc.mppt_channels \o <<MPPTChannelData(0, 0, 0)>>)[2],
     mppt2       |-> acc.mppt_channels[1],
     total_power |-> acc.total_power,
     modules     |-> acc.modules_with_diagnostics]

\* the snapshot built from the lists (its timestamp is left out)
MPPTData(acc) ==
    LET mppt_channels == pad_channels(acc.mppt_channels) IN
    [mppt1       |-> mppt_channels[1],
     mppt2       |-> mppt_channels[2],
     total_power |-> acc.total_power,
     modules     |-> acc.modules_with_diagnostics]

\* faulty variant: an empty block gives an empty snapshot
no_modules_empty_snapshot(b) ==
    Some([mppt1 |-> MPPTChannelData(0, 0, 0), mppt2 |-> MPPTChannelData(0, 0, 0),
          total_power |-> 0, modules |-> <<>>])

\* `if num_modules < 1: return None`
no_modules(b) == None

\* ModbusClient.read_mppt_data() on block b: b.device is `self._device` is not
\* None, b.has160 is `160 in self._device.models`, b.read_raises and
\* b.count_raises are whether model_160.read() and model_160.N.value raise,
\* b.module is model_160.module, of length N
read_mppt_data_result(b) ==
    IF ~b.device THEN None
    ELSE IF ~b.has160 THEN None
    ELSE IF b.read_raises THEN None
    ELSE IF b.count_raises THEN None
    ELSE IF Len(b.module) < 1 THEN no_modules(b)
    ELSE Some(MPPTData(read_modules(b.module, 1,
                  [mppt_channels |-> <<>>, modules_with_diagnostics |-> <<>>,
                   total_power |-> 0])))

----------------------------------------------------------------------------
(* The state machine: a caller holding one ConnectionState, one ModbusClient  *)
(* and one MQTTPublisher calls the handlers in any order; the publisher's     *)
(* network thread delivers its callbacks in between.                          *)

\* the failures counted in s, over the three counters
Failures(s) ==
    s.modbus_retry_count + s.mqtt_retry_count + s.model_160_retry_count

Bounded(s) == Failures(s) <= MaxRetry

\* the time run() starts at
StartTime == 0

\* no function has been called directly
NoCall == [fn |-> "none"]

\* the collaborators after FroniusBridgeController.__init__, a fresh
\* ConnectionState, and the locals of run() before its loop
Constructed ==
    /\ state = ConnectionState
    /\ diagnostic_discovery_published = FALSE
    /\ mb = ModbusClientInit
    /\ pub = MQTTPublisherInit
    /\ discovery_due = FALSE
    /\ op = "init"
    /\ prev = ConnectionState
    /\ ret = None
    /\ calls = <<>>
    /\ now = StartTime
    /\ next_poll_time = StartTime
    /\ sleep_time = None
    /\ sched = None
    /\ grid_origin = StartTime
    /\ resynced = FALSE
    /\ iter_calls = <<>>
    /\ interrupted = FALSE
    /\ call = NoCall
    /\ faults = TRUE

Init ==
    /\ Constructed
    /\ pc = "caller"
    /\ poll_interval = 1

CallHandleModbusConnection ==
    \E connOK \in BOOLEAN :
    \E has160 \in (IF connOK THEN BOOLEAN ELSE {FALSE}) :
    \E infoOK \in (IF has160 THEN BOOLEAN ELSE {FALSE}) :
      LET r == handle_modbus_connection(state, mb, connOK, has160, infoOK) IN
      /\ Bounded(r.state)
      /\ state' = r.state
      /\ mb' = r.mb
      /\ ret' = r.ret
      /\ calls' = r.calls
      /\ prev' = state
      /\ op' = "handle_modbus_connection"
      /\ UNCHANGED <<diagnostic_discovery_published, pub, discovery_due>>
      /\ UNCHANGED runVars
      /\ UNCHANGED <<call, faults>>

CallHandleMqttConnection ==
    \E outcome \in ConnectOutcomes :
    \E cb \in (IF mqtt_connect_result(outcome)
               THEN CallbacksOf(mqtt_connect(pub, outcome)) ELSE {"none"}) :
    \E brokerOK \in (IF mqtt_connect_result(outcome) THEN BOOLEAN ELSE {FALSE}) :
      LET r == handle_mqtt_connection(state, pub, discovery_due, outcome, cb, brokerOK) IN
      /\ Bounded(r.state)
      /\ state' = r.state
      /\ pub' = r.pub
      /\ discovery_due' = r.due
      /\ ret' = r.ret
      /\ calls' = r.calls
      /\ prev' = state
      /\ op' = "handle_mqtt_connection"
      /\ UNCHANGED <<diagnostic_discovery_published, mb>>
      /\ UNCHANGED runVars
      /\ UNCHANGED <<call, faults>>

CallHandleDataPolling ==
    \E readOK \in BOOLEAN :
    \E brokerOK \in (IF readOK THEN BOOLEAN ELSE {FALSE}) :
    \E cb \in (IF readOK THEN CallbacksOf(pub) ELSE {"none"}) :
      LET r == handle_data_polling(state, mb, pub, discovery_due, readOK, brokerOK, cb) IN
      /\ state' = r.state
      /\ pub' = r.pub
      /\ discovery_due' = r.due
      /\ ret' = None
      /\ calls' = r.calls
      /\ prev' = state
      /\ op' = "handle_data_polling"
      /\ UNCHANGED <<diagnostic_discovery_published, mb>>
      /\ UNCHANGED runVars
      /\ UNCHANGED <<call, faults>>

\* the caller marks discovery as published on its ConnectionState:
\* state.diagnostic_discovery_published = True
SetDiagnosticDiscoveryPublished ==
    /\ ~diagnostic_discovery_published
    /\ diagnostic_discovery_published' = TRUE
    /\ op' = "set_diagnostic_discovery_published"
    /\ prev' = state
    /\ ret' = None
    /\ calls' = <<>>
    /\ UNCHANGED <<state, mb, pub, discovery_due>>
    /\ UNCHANGED runVars
    /\ UNCHANGED <<call, faults>>

\* the network thread delivers a callback while no handler runs
NetworkThread ==
    \E cb \in CallbacksOf(pub) \ {"none"} :
      /\ pub' = callback(pub, cb)
      /\ discovery_due' = due_after_callback(pub, cb, discovery_due)
      /\ op' = cb
      /\ prev' = state
      /\ ret' = None
      /\ calls' = <<>>
      /\ UNCHANGED <<state, diagnostic_discovery_published, mb>>
      /\ UNCHANGED runVars
      /\ UNCHANGED <<call, faults>>

Next ==
    \/ CallHandleModbusConnection
    \/ CallHandleMqttConnection
    \/ CallHandleDataPolling
    \/ SetDiagnosticDiscoveryPublished
    \/ NetworkThread

Spec == Init /\ [][Next]_vars

----------------------------------------------------------------------------
(* FroniusBridgeController.run(): the loop calls the three handlers in order, *)
(* sleeps the backoff of a failed link step and the scheduler's sleep time,   *)
(* and disconnects both collaborators when the process is interrupted.        *)
(* The clock advances while the loop sleeps and while a cycle reads and       *)
(* publishes.                                                                 *)

PollIntervals == 1..MaxInterval

RunInit ==
    /\ Constructed
    /\ pc = "modbus"
    /\ poll_interval \in PollIntervals

\* `if not success and delay:` on a handler's return value
step_failed(r) == ~r[1].ok /\ r[1].delay # None /\ r[1].delay # Some(0)

\* faulty variant: the iteration goes on after the telemetry backoff
next_after_modbus_backoff_falls_through == "mqtt"

\* `continue`: the iteration restarts after the telemetry backoff
next_after_modbus_backoff == "modbus"

\* faulty variant: the iteration restarts after the bus backoff
next_after_mqtt_backoff_restarts == "modbus"

\* the iteration goes on to handle_data_polling after the bus backoff
next_after_mqtt_backoff == "poll"

RunModbus ==
    /\ pc = "modbus"
    /\ \E connOK \in (IF state.modbus_connected THEN {TRUE} ELSE BOOLEAN) :
       \E has160 \in (IF connOK /\ ~state.modbus_connected THEN BOOLEAN ELSE {FALSE}) :
       \E infoOK \in (IF has160 THEN BOOLEAN ELSE {FALSE}) :
         LET r == handle_modbus_connection(state, mb, connOK, has160, infoOK) IN
         /\ Bounded(r.state)
         /\ state' = r.state
         /\ mb' = r.mb
         /\ ret' = r.ret
         /\ calls' = r.calls
         /\ prev' = state
         /\ op' = "handle_modbus_connection"
         /\ iter_calls' = r.calls
         /\ IF Escaped(r.calls)
            THEN pc' = "finally" /\ UNCHANGED <<next_poll_time, grid_origin>>
            ELSE IF step_failed(r.ret)
            THEN /\ next_poll_time' = now + r.ret[1].delay[1]
                 /\ grid_origin' = now + r.ret[1].delay[1]
                 /\ pc' = "modbus_backoff"
            ELSE pc' = "mqtt" /\ UNCHANGED <<next_poll_time, grid_origin>>
    /\ UNCHANGED <<diagnostic_discovery_published, pub, discovery_due, now,
                   poll_interval, sleep_time, sched, resynced, interrupted>>
    /\ UNCHANGED <<call, faults>>

\* time.sleep(modbus_delay); continue
RunModbusBackoff ==
    /\ pc = "modbus_backoff"
    /\ now + ret[1].delay[1] <= MaxTime
    /\ now' = now + ret[1].delay[1]
    /\ pc' = next_after_modbus_backoff
    /\ op' = "sleep"
    /\ UNCHANGED <<state, diagnostic_discovery_published, mb, pub, discovery_due,
                   prev, ret, calls, next_poll_time, poll_interval, sleep_time,
                   sched, grid_origin, resynced, iter_calls, interrupted>>
    /\ UNCHANGED <<call, faults>>

RunMqtt ==
    /\ pc = "mqtt"
    /\ \E outcome \in (IF state.mqtt_connected THEN {"established"} ELSE ConnectOutcomes) :
       \E cb \in (IF mqtt_connect_result(outcome) /\ ~state.mqtt_connected
                  THEN CallbacksOf(mqtt_connect(pub, outcome)) ELSE {"none"}) :
       \E brokerOK \in (IF mqtt_connect_result(outcome) /\ ~state.mqtt_connected
                        THEN BOOLEAN ELSE {FALSE}) :
         LET r == handle_mqtt_connection(state, pub, discovery_due, outcome, cb, brokerOK) IN
         /\ Bounded(r.state)
         /\ state' = r.state
         /\ pub' = r.pub
         /\ discovery_due' = r.due
         /\ ret' = r.ret
         /\ calls' = r.calls
         /\ prev' = state
         /\ op' = "handle_mqtt_connection"
         /\ iter_calls' = iter_calls \o r.calls
         /\ IF Escaped(r.calls)
            THEN pc' = "finally" /\ UNCHANGED <<next_poll_time, grid_origin>>
            ELSE IF step_failed(r.ret)
            THEN /\ next_poll_time' = now + r.ret[1].delay[1]
                 /\ grid_origin' = now + r.ret[1].delay[1]
                 /\ pc' = "mqtt_backoff"
            ELSE pc' = "poll" /\ UNCHANGED <<next_poll_time, grid_origin>>
    /\ UNCHANGED <<diagnostic_discovery_published, mb, now, poll_interval,
                   sleep_time, sched, resynced, interrupted>>
    /\ UNCHANGED <<call, faults>>

\* time.sleep(mqtt_delay), then on to the poll
RunMqttBackoff ==
    /\ pc = "mqtt_backoff"
    /\ now + ret[1].delay[1] <= MaxTime
    /\ now' = now + ret[1].delay[1]
    /\ pc' = next_after_mqtt_backoff
    /\ op' = "sleep"
    /\ UNCHANGED <<state, diagnostic_discovery_published, mb, pub, discovery_due,
                   prev, ret, calls, next_poll_time, poll_interval, sleep_time,
                   sched, grid_origin, resynced, iter_calls, interrupted>>
    /\ UNCHANGED <<call, faults>>

\* handle_data_polling; the read and the publication take dt seconds
RunPoll ==
    /\ pc = "poll"
    /\ \E dt \in 0..MaxWork :
       \E readOK \in BOOLEAN :
       \E brokerOK \in (IF readOK THEN BOOLEAN ELSE {FALSE}) :
       \E cb \in (IF readOK THEN CallbacksOf(pub) ELSE {"none"}) :
         LET r == handle_data_polling(state, mb, pub, discovery_due, readOK, brokerOK, cb) IN
         /\ now + dt <= MaxTime
         /\ now' = now + dt
         /\ state' = r.state
         /\ pub' = r.pub
         /\ discovery_due' = r.due
         /\ ret' = None
         /\ calls' = r.calls
         /\ prev' = state
         /\ op' = "handle_data_polling"
         /\ iter_calls' = iter_calls \o r.calls
         /\ pc' = IF Escaped(r.calls) THEN "finally" ELSE "schedule"
    /\ UNCHANGED <<diagnostic_discovery_published, mb, next_poll_time,
                   poll_interval, sleep_time, sched, grid_origin, resynced,
                   interrupted>>
    /\ UNCHANGED <<call, faults>>

\* sleep_time, next_poll_time = calculate_sleep_time(next_poll_time, poll_interval)
RunSchedule ==
    /\ pc = "schedule"
    /\ LET r == calculate_sleep_time(next_poll_time, now, poll_interval) IN
       /\ sleep_time' = Some(r.sleep)
       /\ next_poll_time' = r.next
       /\ sched' = Some([due |-> next_poll_time, at |-> now, reset |-> r.reset])
       /\ grid_origin' = IF r.reset THEN now ELSE grid_origin
       /\ resynced' = (resynced \/ r.reset)
       /\ pc' = IF r.sleep > 0 THEN "sleep" ELSE "modbus"
    /\ op' = "calculate_sleep_time"
    /\ UNCHANGED <<state, diagnostic_discovery_published, mb, pub, discovery_due,
                   prev, ret, calls, now, poll_interval, iter_calls, interrupted>>
    /\ UNCHANGED <<call, faults>>

\* if sleep_time > 0: time.sleep(sleep_time)
RunSleep ==
    /\ pc = "sleep"
    /\ now + sleep_time[1] <= MaxTime
    /\ now' = now + sleep_time[1]
    /\ pc' = "modbus"
    /\ op' = "sleep"
    /\ UNCHANGED <<state, diagnostic_discovery_published, mb, pub, discovery_due,
                   prev, ret, calls, next_poll_time, poll_interval, sleep_time,
                   sched, grid_origin, resynced, iter_calls, interrupted>>
    /\ UNCHANGED <<call, faults>>

LoopPositions ==
    {"modbus", "modbus_backoff", "mqtt", "mqtt_backoff", "poll", "schedule", "sleep"}

\* the ModbusClient an interrupt leaves: one that arrives inside connect() finds
\* the new device created and not yet scanned
InterruptedModbusClient ==
    IF pc = "modbus" /\ ~state.modbus_connected
    THEN {mb, [mb EXCEPT !.device = TRUE, !.has160 = FALSE]}
    ELSE {mb}

\* the MQTTPublisher an interrupt leaves: one that arrives inside connect() finds
\* _connected reset, and the loop started with or without the connect callback
InterruptedPublisher ==
    IF pc = "mqtt" /\ ~state.mqtt_connected
    THEN {pub, [pub EXCEPT !.connected = FALSE]}
         \cup {[pub EXCEPT !.connected = c, !.loop = TRUE] : c \in BOOLEAN}
    ELSE {pub}

\* KeyboardInterrupt, raised wherever the loop stands
Interrupt ==
    /\ pc \in LoopPositions
    /\ \E m \in InterruptedModbusClient :
       \E p \in InterruptedPublisher :
         /\ mb' = m
         /\ pub' = p
    /\ pc' = "finally"
    /\ interrupted' = TRUE
    /\ op' = "interrupt"
    /\ UNCHANGED <<state, diagnostic_discovery_published, discovery_due, prev,
                   ret, calls, now, next_poll_time, poll_interval, sleep_time,
                   sched, grid_origin, resynced, iter_calls>>
    /\ UNCHANGED <<call, faults>>

\* the finally clause of run(): modbus_client.disconnect(), then
\* mqtt_publisher.disconnect() unless the first call raised
Cleanup ==
    /\ pc = "finally"
    /\ \E closeRaises \in (IF mb.device THEN BOOLEAN ELSE {FALSE}) :
       \E err \in DisconnectErrors :
         LET d1 == mb_disconnect(mb, closeRaises)
             d2 == mqtt_disconnect(pub, err)
         IN /\ mb' = d1.mb
            /\ pub' = IF d1.raised THEN pub ELSE d2.pub
            /\ calls' = IF d1.raised
                        THEN <<Call("modbus_client.disconnect", FALSE)>>
                        ELSE <<Call("modbus_client.disconnect", TRUE),
                               Call("mqtt_publisher.disconnect", ~d2.raised)>>
    /\ pc' = "done"
    /\ op' = "finally"
    /\ ret' = None
    /\ UNCHANGED <<state, diagnostic_discovery_published, discovery_due, prev,
                   now, next_poll_time, poll_interval, sleep_time, sched,
                   grid_origin, resynced, iter_calls, interrupted>>
    /\ UNCHANGED <<call, faults>>

\* the network thread delivers a callback while run() is between two calls
RunNetworkThread ==
    /\ pc # "done"
    /\ \E cb \in CallbacksOf(pub) \ {"none"} :
         /\ pub' = callback(pub, cb)
         /\ discovery_due' = due_after_callback(pub, cb, discovery_due)
    /\ UNCHANGED <<state, diagnostic_discovery_published, mb, op, prev, ret, calls>>
    /\ UNCHANGED runVars
    /\ UNCHANGED <<call, faults>>

NextRun ==
    \/ RunModbus
    \/ RunModbusBackoff
    \/ RunMqtt
    \/ RunMqttBackoff
    \/ RunPoll
    \/ RunSchedule
    \/ RunSleep
    \/ Interrupt
    \/ Cleanup
    \/ RunNetworkThread

SpecRun == RunInit /\ [][NextRun]_vars

----------------------------------------------------------------------------
(* Direct calls of the functions of modbus_client.py and mqtt_publisher.py:  *)
(* each behaviour is one call, with its inputs drawn from the sets below.    *)

\* the other variables stay as constructed
OnlyCall ==
    UNCHANGED <<state, diagnostic_discovery_published, mb, pub, discovery_due,
                op, prev, ret, calls, runVars, faults>>

StateCodes == {None} \cup {Some(n) : n \in -MaxCode..MaxCode}

CallFormatState ==
    /\ call = NoCall
    /\ \E state_value \in StateCodes :
         call' = [fn |-> "format_state", arg |-> state_value,
                  result |-> format_state(state_value)]
    /\ OnlyCall

\* bit positions with no entry in EVENT_NAMES
UnknownBits == {2, 23}

TestedBits == {EVENT_NAMES[i][1] : i \in 1..Len(EVENT_NAMES)} \cup UnknownBits

RECURSIVE Bitfield(_)
Bitfield(S) ==
    IF S = {} THEN 0
    ELSE LET k == CHOOSE x \in S : TRUE IN (2 ^ k) + Bitfield(S \ {k})

\* None and every bitfield whose set bits are tested bits
EventBitfields == {None} \cup {Some(Bitfield(S)) : S \in SUBSET TestedBits}

CallDecodeEvents ==
    /\ call = NoCall
    /\ \E events_bitfield \in EventBitfields :
         call' = [fn |-> "decode_events", arg |-> events_bitfield,
                  result |-> decode_events(events_bitfield)]
    /\ OnlyCall

\* the values two modules hold: volts, amps, watts, degrees, state code, events
ModuleValues ==
    {[v |-> 400, a |-> 10, w |-> 4000, t |-> 45, s |-> 4, e |-> 3],
     [v |-> 380, a |-> 9, w |-> 3500, t |-> 50, s |-> 11, e |-> 0]}

\* a module whose six points all read as values
Healthy(x) ==
    [DCV |-> Val(x.v), DCA |-> Val(x.a), DCW |-> Val(x.w),
     Tmp |-> Val(x.t), DCSt |-> Val(x.s), DCEvt |-> Val(x.e)]

CoreFields == {"DCV", "DCA", "DCW"}

DiagnosticFields == {"Tmp", "DCSt", "DCEvt"}

CoreFaults == {Nil, Raising("OtherError")}

DiagnosticFaults == {Nil, Absent} \cup {Raising(e) : e \in ExceptionKinds}

\* the modules read: healthy, or with one point that is None, missing or raising
ModuleInputs ==
    UNION {{Healthy(x)}
           \cup {[Healthy(x) EXCEPT ![f] = y] : f \in CoreFields, y \in CoreFaults}
           \cup {[Healthy(x) EXCEPT ![f] = y] :
                     f \in DiagnosticFields, y \in DiagnosticFaults}
           : x \in ModuleValues}

\* a client with its device and model 160, or with one reason to abort
BlockFlags ==
    {[device |-> TRUE, has160 |-> TRUE, read_raises |-> FALSE, count_raises |-> FALSE],
     [device |-> FALSE, has160 |-> FALSE, read_raises |-> FALSE, count_raises |-> FALSE],
     [device |-> TRUE, has160 |-> FALSE, read_raises |-> FALSE, count_raises |-> FALSE],
     [device |-> TRUE, has160 |-> TRUE, read_raises |-> TRUE, count_raises |-> FALSE],
     [device |-> TRUE, has160 |-> TRUE, read_raises |-> FALSE, count_raises |-> TRUE]}

Block(f, module) ==
    [device |-> f.device, has160 |-> f.has160, read_raises |-> f.read_raises,
     count_raises |-> f.count_raises, module |-> module]

CallReadMpptData ==
    /\ call = NoCall
    /\ \E f \in BlockFlags :
       \E n \in 0..MaxModules :
       \E module \in [1..n -> ModuleInputs] :
         LET b == Block(f, module) IN
         call' = [fn |-> "read_mppt_data", arg |-> b,
                  result |-> read_mppt_data_result(b)]
    /\ OnlyCall

\* the publishers the methods are called on: connected or not, with or
\* without the device id of an earlier publish_discovery
Publishers ==
    {[connected |-> c, device_id |-> d, loop |-> TRUE] :
        c \in BOOLEAN, d \in {None, Some(DeviceInfo)}}

PublishResults == [1..Len(SENSORS) -> PublishOutcomes]

CallPublishDiscovery ==
    /\ call = NoCall
    /\ \E p \in Publishers, rcs \in PublishResults :
         call' = [fn |-> "publish_discovery", arg |-> [pub |-> p, rcs |-> rcs],
                  result |-> publish_discovery_result(p, Some(DeviceInfo), rcs)]
    /\ OnlyCall

CallPublishSensorData ==
    /\ call = NoCall
    /\ \E p \in Publishers, rcs \in PublishResults :
         call' = [fn |-> "publish_sensor_data", arg |-> [pub |-> p, rcs |-> rcs],
                  result |-> publish_sensor_data_result(p, rcs)]
    /\ OnlyCall

NextCalls ==
    \/ CallFormatState
    \/ CallDecodeEvents
    \/ CallReadMpptData
    \/ CallPublishDiscovery
    \/ CallPublishSensorData

SpecCalls == Init /\ [][NextCalls]_vars

----------------------------------------------------------------------------
(* MQTTPublisher.connect() statement by statement, with the callbacks of the *)
(* client's network thread between its statements                            *)

\* the polls of `while not self._connected and elapsed < timeout` that see the
\* flag unset before the timeout has elapsed
MaxWait == 2

\* what self._client.connect(...) does: returns MQTT_ERR_SUCCESS, returns
\* another code, or raises
InitiateOutcomes == {"success", "error", "raises"}

\* the publishers connect() is called on: a new one, and one whose network loop
\* was started by an earlier connect(), connected or disconnected since
ConnectPublishers ==
    {[connected |-> c, device_id |-> d, loop |-> l] :
        c \in BOOLEAN, d \in {None, Some(DeviceInfo)}, l \in BOOLEAN} \
    {p \in [connected : BOOLEAN, device_id : {None, Some(DeviceInfo)}, loop : BOOLEAN] :
        p.connected /\ ~p.loop}

\* connect() entered on publisher p: `at` is the statement to run next, `acked`
\* whether _on_connect with reason code 0 ran since the reset, `started`
\* whether this call started the loop, `path` how the call left the try block
connect_enter(p) ==
    [fn |-> "connect", at |-> "reset", pub |-> p, acked |-> FALSE,
     started |-> FALSE, waited |-> 0, path |-> "none", result |-> None]

\* self._connected = False
connect_reset(c) ==
    [c EXCEPT !.pub.connected = FALSE, !.acked = FALSE, !.at = "initiate"]

\* result = self._client.connect(...); a result other than success returns False
connect_initiate(c, outcome) ==
    CASE outcome = "success" -> [c EXCEPT !.at = "loop_start"]
      [] outcome = "error"   -> [c EXCEPT !.at = "return", !.path = "initiation failed",
                                          !.result = Some(FALSE)]
      [] outcome = "raises"  -> [c EXCEPT !.at = "except", !.path = "raised"]

\* self._client.loop_start()
connect_loop_start(c) ==
    [c EXCEPT !.pub.loop = TRUE, !.started = TRUE, !.at = "wait"]

\* one test of `while not self._connected and (time.time() - start_time) < timeout`
connect_wait(c) ==
    IF c.pub.connected
    THEN [c EXCEPT !.at = "check"]
    ELSE IF c.waited < MaxWait
         THEN [c EXCEPT !.waited = @ + 1]
         ELSE [c EXCEPT !.at = "check", !.path = "timeout"]

\* `if self._connected: return True`, else the timeout branch
connect_check(c) ==
    IF c.pub.connected
    THEN [c EXCEPT !.at = "return", !.path = "established", !.result = Some(TRUE)]
    ELSE [c EXCEPT !.at = "loop_stop", !.path = "timeout"]

\* self._client.loop_stop(); return False
connect_loop_stop(c) ==
    [c EXCEPT !.pub.loop = FALSE, !.at = "return", !.result = Some(FALSE)]

\* except Exception: self._connected = False; return False
connect_except(c) ==
    [c EXCEPT !.pub.connected = FALSE, !.at = "return", !.result = Some(FALSE)]

\* the call returns to its caller
connect_return(c) == [c EXCEPT !.at = "returned"]

\* a callback of the network thread while connect() is at some statement
connect_callback(c, cb) ==
    [c EXCEPT !.pub = callback(c.pub, cb),
              !.acked = IF cb = "on_connect_ok" THEN TRUE ELSE @]

ConnectCall == call.fn = "connect"

At(a) == ConnectCall /\ call.at = a

ConnectEnter ==
    /\ call = NoCall
    /\ \E p \in ConnectPublishers : call' = connect_enter(p)
    /\ OnlyCall

ConnectReset ==
    /\ At("reset")
    /\ call' = connect_reset(call)
    /\ OnlyCall

ConnectInitiate ==
    /\ At("initiate")
    /\ \E outcome \in InitiateOutcomes : call' = connect_initiate(call, outcome)
    /\ OnlyCall

ConnectLoopStart ==
    /\ At("loop_start")
    /\ call' = connect_loop_start(call)
    /\ OnlyCall

ConnectWait ==
    /\ At("wait")
    /\ call' = connect_wait(call)
    /\ OnlyCall

ConnectCheck ==
    /\ At("check")
    /\ call' = connect_check(call)
    /\ OnlyCall

ConnectLoopStop ==
    /\ At("loop_stop")
    /\ call' = connect_loop_stop(call)
    /\ OnlyCall

ConnectExcept ==
    /\ At("except")
    /\ call' = connect_except(call)
    /\ OnlyCall

ConnectReturn ==
    /\ At("return")
    /\ call' = connect_return(call)
    /\ OnlyCall

\* the network thread runs one callback; it exists while the loop runs. During
\* loop_stop() it is still running until it has been joined.
ConnectNetworkThread ==
    /\ ConnectCall
    /\ call.pub.loop
    /\ \E cb \in Callbacks \ {"none"} :
         /\ call' = connect_callback(call, cb)
         /\ call' # call
    /\ OnlyCall

NextConnect ==
    \/ ConnectEnter
    \/ ConnectReset
    \/ ConnectInitiate
    \/ ConnectLoopStart
    \/ ConnectWait
    \/ ConnectCheck
    \/ ConnectLoopStop
    \/ ConnectExcept
    \/ ConnectReturn
    \/ ConnectNetworkThread

SpecConnect == Init /\ [][NextConnect]_vars

----------------------------------------------------------------------------
(* run() without its clock, for progress: the loop thread always takes its   *)
(* next step, every sleep ends, and from some point on no collaborator call  *)
(* fails.                                                                    *)

\* the telemetry step; once faults are over connect, verify_model_160 and
\* read_device_info succeed
LiveModbus ==
    /\ RunModbus
    /\ ~faults
       => LET r == handle_modbus_connection(state, mb, TRUE, TRUE, TRUE) IN
          /\ state' = r.state
          /\ mb' = r.mb
          /\ calls' = r.calls

\* the bus step; once faults are over connect() is established, no callback
\* clears the flag and the broker accepts the discovery messages
LiveMqtt ==
    /\ RunMqtt
    /\ ~faults
       => LET r == handle_mqtt_connection(state, pub, discovery_due,
                                          "established", "none", TRUE) IN
          /\ state' = r.state
          /\ pub' = r.pub
          /\ calls' = r.calls

\* the poll; once faults are over the block read succeeds and the broker
\* accepts every publish
LivePoll ==
    /\ RunPoll
    /\ now' = now
    /\ ~faults
       => LET r == handle_data_polling(state, mb, pub, discovery_due,
                                       TRUE, TRUE, "none") IN
          /\ state' = r.state
          /\ pub' = r.pub
          /\ calls' = r.calls

\* time.sleep(delay) of a failed link step returns
LiveBackoff ==
    /\ pc \in {"modbus_backoff", "mqtt_backoff"}
    /\ pc' = IF pc = "modbus_backoff" THEN next_after_modbus_backoff
                                      ELSE next_after_mqtt_backoff
    /\ op' = "sleep"
    /\ UNCHANGED <<state, diagnostic_discovery_published, mb, pub, discovery_due,
                   prev, ret, calls, now, next_poll_time, poll_interval,
                   sleep_time, sched, grid_origin, resynced, iter_calls,
                   interrupted, call, faults>>

\* calculate_sleep_time and the sleep of the cycle, if any, return
LiveSchedule ==
    /\ pc = "schedule"
    /\ pc' = "modbus"
    /\ op' = "calculate_sleep_time"
    /\ UNCHANGED <<state, diagnostic_discovery_published, mb, pub, discovery_due,
                   prev, ret, calls, now, next_poll_time, poll_interval,
                   sleep_time, sched, grid_origin, resynced, iter_calls,
                   interrupted, call, faults>>

\* the network thread; once faults are over it reports no loss of the broker
LiveNetworkThread ==
    /\ RunNetworkThread
    /\ ~faults => pub' = callback(pub, "on_connect_ok")

\* from here on every collaborator call succeeds
FaultsEnd ==
    /\ faults
    /\ faults' = FALSE
    /\ op' = "faults_end"
    /\ calls' = <<>>
    /\ UNCHANGED <<state, diagnostic_discovery_published, mb, pub, discovery_due,
                   prev, ret, runVars, call>>

\* a step of the thread that runs run()
LoopStep ==
    \/ LiveModbus
    \/ LiveMqtt
    \/ LivePoll
    \/ LiveBackoff
    \/ LiveSchedule

NextLive ==
    \/ LoopStep
    \/ LiveNetworkThread
    \/ FaultsEnd

\* run() is one sequential thread whose calls all return: it keeps taking steps
SpecLive == RunInit /\ [][NextLive]_vars /\ WF_vars(LoopStep)

----------------------------------------------------------------------------
(* Properties *)

ModbusCall == op = "handle_modbus_connection"

MqttCall == op = "handle_mqtt_connection"

PollCall == op = "handle_data_polling"

ConnectFailed == <<Call("connect", FALSE)>>

VerifyFailed == <<Call("connect", TRUE), Call("verify_model_160", FALSE)>>

ReadFailed == <<Call("read_mppt_data", FALSE)>>

PublishFailedBusLost ==
    <<Call("read_mppt_data", TRUE), Call("publish_sensor_data", FALSE),
      Call("is_connected", FALSE)>>

Called(m, r) == \E i \in 1..Len(calls) : calls[i] = Call(m, r)

\* C1: in every reachable state, model_160_verified implies modbus_connected.
C1_VerifiedImpliesConnected ==
    state.model_160_verified => state.modbus_connected

C1_Witness ==
    /\ ModbusCall
    /\ state.model_160_verified
    /\ state.modbus_connected
    /\ ~prev.modbus_connected

\* C2: a handle_data_polling call made with the telemetry link connected and
\* verified in which read_mppt_data returns None clears modbus_connected and
\* model_160_verified, leaves mqtt_connected, the discovery-published flag,
\* device_info and the three retry counters as they were, and makes no publish
\* call (read_mppt_data is the only collaborator call, the publisher is untouched).
C2_ReadFailureFrame ==
    [][(/\ op' = "handle_data_polling"
        /\ state.modbus_connected /\ state.model_160_verified
        /\ calls' # <<>> /\ calls'[1] = Call("read_mppt_data", FALSE))
       => /\ state' = [state EXCEPT !.modbus_connected = FALSE,
                                    !.model_160_verified = FALSE]
          /\ diagnostic_discovery_published' = diagnostic_discovery_published
          /\ calls' = ReadFailed
          /\ pub' = pub]_vars

C2_Witness ==
    /\ PollCall
    /\ calls = ReadFailed
    /\ prev.modbus_connected /\ prev.model_160_verified /\ prev.mqtt_connected
    /\ ~state.modbus_connected /\ ~state.model_160_verified
    /\ state.mqtt_connected
    /\ diagnostic_discovery_published

\* C3: when a snapshot was read, the bus is marked connected, publish_sensor_data
\* returns False and is_connected() then returns False, handle_data_polling sets
\* mqtt_connected to False and leaves modbus_connected, model_160_verified,
\* device_info, modbus_retry_count and model_160_retry_count unchanged.
C3_BusLostOnFailedPublish ==
    (PollCall /\ calls = PublishFailedBusLost)
    => /\ prev.mqtt_connected
       /\ ~state.mqtt_connected
       /\ state.modbus_connected = prev.modbus_connected
       /\ state.model_160_verified = prev.model_160_verified
       /\ state.device_info = prev.device_info
       /\ state.modbus_retry_count = prev.modbus_retry_count
       /\ state.model_160_retry_count = prev.model_160_retry_count

C3_Witness ==
    /\ PollCall
    /\ calls = PublishFailedBusLost
    /\ prev.mqtt_connected
    /\ ~state.mqtt_connected
    /\ state.modbus_connected /\ state.model_160_verified

\* C4: when a publish attempt fails and the bus reports itself no longer
\* connected, the discovery-published flag of ConnectionState is False after
\* that step.
C4_DiscoveryFlagCleared ==
    (PollCall /\ calls = PublishFailedBusLost)
    => ~diagnostic_discovery_published

\* C5: after every transition of the bus link from disconnected to connected, a
\* discovery publication is attempted before any further telemetry snapshot is
\* published: no publish_sensor_data succeeds while a discovery is due.
C5_DiscoveryBeforeSnapshot ==
    (PollCall /\ Called("publish_sensor_data", TRUE)) => ~discovery_due

\* C6: handle_modbus_connection with modbus_connected already True, and
\* handle_mqtt_connection with mqtt_connected already True, return (True, None),
\* make no collaborator call and change neither ConnectionState nor a collaborator.
C6_AlreadyConnectedNoOp ==
    [][/\ (op' = "handle_modbus_connection" /\ state.modbus_connected)
          => /\ state' = state
             /\ ret' = Return(TRUE, None)
             /\ calls' = <<>>
             /\ mb' = mb /\ pub' = pub
       /\ (op' = "handle_mqtt_connection" /\ state.mqtt_connected)
          => /\ state' = state
             /\ ret' = Return(TRUE, None)
             /\ calls' = <<>>
             /\ mb' = mb /\ pub' = pub]_vars

C6_Witness ==
    /\ MqttCall
    /\ prev.mqtt_connected
    /\ state = prev
    /\ state.modbus_connected
    /\ calls = <<>>
    /\ ret = Return(TRUE, None)

RECURSIVE Pow2(_)
Pow2(n) == IF n = 0 THEN 1 ELSE 2 * Pow2(n - 1)

\* the attempt numbers the handlers can pass to exponential_backoff
Attempts ==
    {state.modbus_retry_count, state.mqtt_retry_count, state.model_160_retry_count}

\* C7: exponential_backoff(n) = min(2^n, 60) for every attempt number n >= 0 a
\* retry counter can hold; it is non-decreasing in n, at least 1 and at most 60.
C7_BackoffCurve ==
    \A n \in Attempts :
        /\ exponential_backoff(n) = (IF Pow2(n) < 60 THEN Pow2(n) ELSE 60)
        /\ exponential_backoff(n) >= 1
        /\ exponential_backoff(n) <= 60
        /\ exponential_backoff(n) <= exponential_backoff(n + 1)

C7_Witness ==
    /\ ModbusCall
    /\ calls = ConnectFailed
    /\ prev.modbus_retry_count = MaxRetry - 1
    /\ ret = Return(FALSE, Some(60))

\* the delays of consecutive failures of one kind: 1, 2, 4, 8, 16, 32, 60, 60, ...
BackoffCurve == <<1, 2, 4, 8, 16, 32, 60>>

CurveAt(k) == IF k <= Len(BackoffCurve) THEN BackoffCurve[k] ELSE 60

\* C8: for each of the three counters, a failure of its kind increments the
\* counter and returns as delay the element of 1, 2, 4, 8, 16, 32, 60, 60, ...
\* at the number of failures counted since the counter was last reset, which is
\* exponential_backoff of the counter before the increment (0-indexed attempt).
C8_DelaysFollowCurve ==
    /\ (ModbusCall /\ calls = ConnectFailed)
       => /\ state.modbus_retry_count = prev.modbus_retry_count + 1
          /\ ret = Return(FALSE, Some(CurveAt(state.modbus_retry_count)))
          /\ ret = Return(FALSE, Some(exponential_backoff(prev.modbus_retry_count)))
    /\ (ModbusCall /\ calls = VerifyFailed)
       => /\ state.model_160_retry_count = prev.model_160_retry_count + 1
          /\ ret = Return(FALSE, Some(CurveAt(state.model_160_retry_count)))
          /\ ret = Return(FALSE, Some(exponential_backoff(prev.model_160_retry_count)))
    /\ (MqttCall /\ calls = ConnectFailed)
       => /\ state.mqtt_retry_count = prev.mqtt_retry_count + 1
          /\ ret = Return(FALSE, Some(CurveAt(state.mqtt_retry_count)))
          /\ ret = Return(FALSE, Some(exponential_backoff(prev.mqtt_retry_count)))

C8_Witness ==
    /\ ModbusCall
    /\ calls = VerifyFailed
    /\ state.model_160_retry_count = Len(BackoffCurve) + 1
    /\ ret = Return(FALSE, Some(60))

\* C9: a successful telemetry connect leaves modbus_retry_count = 0, a
\* successful verification leaves model_160_retry_count = 0, a successful bus
\* connect leaves mqtt_retry_count = 0; a counter changes only in a connect or
\* verification of its own kind, and a failure met with the counter at 0
\* returns the delay 1.
C9_SuccessResetsCounter ==
    /\ (ModbusCall /\ Called("connect", TRUE)) => state.modbus_retry_count = 0
    /\ (ModbusCall /\ Called("verify_model_160", TRUE))
       => state.model_160_retry_count = 0
    /\ (MqttCall /\ Called("connect", TRUE)) => state.mqtt_retry_count = 0
    /\ state.modbus_retry_count # prev.modbus_retry_count
       => (ModbusCall /\ (Called("connect", TRUE) \/ Called("connect", FALSE)))
    /\ state.model_160_retry_count # prev.model_160_retry_count
       => (ModbusCall /\ (Called("verify_model_160", TRUE)
                          \/ Called("verify_model_160", FALSE)))
    /\ state.mqtt_retry_count # prev.mqtt_retry_count
       => (MqttCall /\ (Called("connect", TRUE) \/ Called("connect", FALSE)))
    /\ (ModbusCall /\ calls = ConnectFailed /\ prev.modbus_retry_count = 0)
       => ret = Return(FALSE, Some(1))
    /\ (ModbusCall /\ calls = VerifyFailed /\ prev.model_160_retry_count = 0)
       => ret = Return(FALSE, Some(1))
    /\ (MqttCall /\ calls = ConnectFailed /\ prev.mqtt_retry_count = 0)
       => ret = Return(FALSE, Some(1))

C9_Witness ==
    /\ ModbusCall
    /\ Called("connect", TRUE)
    /\ prev.modbus_retry_count > 0
    /\ state.modbus_retry_count = 0

\* C10: when connect() succeeds and verify_model_160() fails,
\* handle_modbus_connection ends with modbus_connected and model_160_verified
\* False, model_160_retry_count incremented by one, no read_device_info call
\* (device_info as before), and returns failure with the verification counter's
\* backoff delay; a handle_data_polling call made while the telemetry link is
\* not connected reads no snapshot.
C10_VerificationFailure ==
    /\ (ModbusCall /\ Called("connect", TRUE) /\ Called("verify_model_160", FALSE))
       => /\ ~state.modbus_connected
          /\ ~state.model_160_verified
          /\ state.model_160_retry_count = prev.model_160_retry_count + 1
          /\ calls = VerifyFailed
          /\ state.device_info = prev.device_info
          /\ ret = Return(FALSE, Some(exponential_backoff(prev.model_160_retry_count)))
    /\ (PollCall /\ ~prev.modbus_connected)
       => /\ calls = <<>>
          /\ state = prev

C10_Witness ==
    /\ ModbusCall
    /\ calls = VerifyFailed
    /\ ~state.modbus_connected
    /\ state.model_160_retry_count = 3
    /\ state.modbus_retry_count = 0
    /\ state.device_info # None
    /\ ret = Return(FALSE, Some(4))

\* the calls of a handle_modbus_connection whose identity fetch returned nothing
InfoMissing ==
    <<Call("connect", TRUE), Call("verify_model_160", TRUE),
      Call("read_device_info", FALSE)>>

\* C11: when connect() and verify_model_160() succeed and read_device_info()
\* returns nothing, handle_modbus_connection returns success with
\* modbus_connected and model_160_verified True; a handle_data_polling call made
\* with both flags True (as that call leaves them) reads a snapshot.
C11_IdentityFetchBestEffort ==
    /\ (ModbusCall /\ calls = InfoMissing)
       => /\ ret = Return(TRUE, None)
          /\ state.modbus_connected
          /\ state.model_160_verified
          /\ state.modbus_retry_count = 0
          /\ state.model_160_retry_count = 0
    /\ (PollCall /\ prev.modbus_connected /\ prev.model_160_verified)
       => /\ calls # <<>>
          /\ calls[1].m = "read_mppt_data"

C11_Witness ==
    /\ PollCall
    /\ state.device_info = None
    /\ state.modbus_connected /\ state.model_160_verified
    /\ calls # <<>>
    /\ calls[1] = Call("read_mppt_data", TRUE)

\* C12: a handle_mqtt_connection whose connect() succeeds with a known device
\* identity attempts publish_discovery; when that publication fails the step
\* still returns success with mqtt_connected True and mqtt_retry_count 0, and
\* the failure does not block later snapshots: the publisher holds its device
\* id, so a publish_sensor_data call on a connected publisher is not refused
\* for want of a discovery.
C12_FailedDiscoveryDoesNotBlock ==
    /\ (MqttCall /\ Called("connect", TRUE) /\ prev.device_info # None)
       => (Called("publish_discovery", TRUE) \/ Called("publish_discovery", FALSE))
    /\ (MqttCall /\ Called("publish_discovery", FALSE))
       => /\ ret = Return(TRUE, None)
          /\ state.mqtt_connected
          /\ state.mqtt_retry_count = 0
          /\ pub.device_id # None

\* C13: handle_modbus_connection, whatever its outcome, leaves mqtt_connected
\* and mqtt_retry_count unchanged; handle_mqtt_connection, whatever its outcome,
\* leaves modbus_connected, model_160_verified, device_info, modbus_retry_count
\* and model_160_retry_count unchanged.
C13_HandlerFrames ==
    /\ ModbusCall
       => /\ state.mqtt_connected = prev.mqtt_connected
          /\ state.mqtt_retry_count = prev.mqtt_retry_count
    /\ MqttCall
       => /\ state.modbus_connected = prev.modbus_connected
          /\ state.model_160_verified = prev.model_160_verified
          /\ state.device_info = prev.device_info
          /\ state.modbus_retry_count = prev.modbus_retry_count
          /\ state.model_160_retry_count = prev.model_160_retry_count

C13_Witness ==
    /\ ModbusCall
    /\ calls = ConnectFailed
    /\ state.modbus_retry_count = 2
    /\ prev.mqtt_retry_count = 3
    /\ state.mqtt_retry_count = 3
    /\ ~state.mqtt_connected

\* how many calls of collaborator method m the call log cs holds
CountCalls(cs, m) == Cardinality({i \in 1..Len(cs) : cs[i].m = m})

\* C16: handle_data_polling reads a snapshot only when modbus_connected and
\* model_160_verified are both True (otherwise it makes no collaborator call
\* and changes no state); it calls publish_sensor_data only when the read
\* returned a snapshot and mqtt_connected is True; one call of the handler, which
\* the run loop makes once per iteration, makes at most one read and at most
\* one snapshot publication.
C16_PollingGuards ==
    PollCall
    => /\ CountCalls(calls, "read_mppt_data") > 0
          => (prev.modbus_connected /\ prev.model_160_verified)
       /\ ~(prev.modbus_connected /\ prev.model_160_verified)
          => (calls = <<>> /\ state = prev)
       /\ CountCalls(calls, "publish_sensor_data") > 0
          => (Called("read_mppt_data", TRUE) /\ prev.mqtt_connected)
       /\ CountCalls(calls, "read_mppt_data") <= 1
       /\ CountCalls(calls, "publish_sensor_data") <= 1

C16_Witness ==
    /\ PollCall
    /\ prev.modbus_connected /\ prev.model_160_verified /\ prev.mqtt_connected
    /\ CountCalls(calls, "read_mppt_data") = 1
    /\ CountCalls(calls, "publish_sensor_data") = 1
    /\ Called("publish_sensor_data", TRUE)

\* the delay a failed handler call returned
Delay(r) == r[1].delay[1]

\* C14: in a run-loop iteration whose telemetry link step is unsuccessful, the
\* loop sets the next due time to now + delay, sleeps the returned backoff delay
\* and restarts the iteration: the iteration's only collaborator calls are the
\* failed connect, or the connect and the failed verification; no bus connect is
\* attempted, no snapshot is read and nothing is published.
C14_TelemetryFailureRestarts ==
    [][/\ (pc = "modbus" /\ pc' \in LoopPositions /\ pc' # pc /\ step_failed(ret'))
          => /\ pc' = "modbus_backoff"
             /\ next_poll_time' = now + Delay(ret')
             /\ iter_calls' \in {ConnectFailed, VerifyFailed}
       /\ (pc = "modbus" /\ pc' \in LoopPositions \ {pc, "modbus_backoff"})
          => ~step_failed(ret')
       /\ (pc = "modbus_backoff" /\ pc' \in LoopPositions /\ pc' # pc)
          => /\ pc' = "modbus"
             /\ now' = now + Delay(ret)
             /\ iter_calls \in {ConnectFailed, VerifyFailed}
             /\ iter_calls' = iter_calls
             /\ state' = state /\ mb' = mb /\ pub' = pub]_vars

C14_Witness ==
    /\ pc = "modbus"
    /\ op = "sleep"
    /\ iter_calls = VerifyFailed
    /\ ret = Return(FALSE, Some(2))
    /\ state.mqtt_connected
    /\ now >= 3

\* C15: in a run-loop iteration whose bus link step is unsuccessful, the
\* telemetry link being connected and verified, the loop sets the next due time
\* to now + delay, sleeps the returned backoff delay and goes on to
\* handle_data_polling, which reads one snapshot in that iteration; the failed
\* bus step changes neither modbus_connected nor model_160_verified.
C15_BusFailureStillPolls ==
    [][/\ (pc = "mqtt" /\ pc' \in LoopPositions /\ pc' # pc /\ step_failed(ret'))
          => /\ pc' = "mqtt_backoff"
             /\ next_poll_time' = now + Delay(ret')
             /\ state.modbus_connected /\ state.model_160_verified
             /\ state'.modbus_connected /\ state'.model_160_verified
       /\ (pc = "mqtt_backoff" /\ pc' \in LoopPositions /\ pc' # pc)
          => /\ pc' = "poll"
             /\ now' = now + Delay(ret)
             /\ state' = state /\ mb' = mb /\ pub' = pub
       /\ (pc = "poll" /\ pc' = "schedule")
          => /\ CountCalls(iter_calls', "read_mppt_data") = 1
             /\ calls'[1].m = "read_mppt_data"]_vars

\* a snapshot read in an iteration whose bus connect failed for the second time
C15_Witness ==
    /\ pc = "schedule"
    /\ PollCall
    /\ calls = <<Call("read_mppt_data", TRUE)>>
    /\ CountCalls(iter_calls, "connect") = 1
    /\ iter_calls[1] = Call("connect", FALSE)
    /\ state.mqtt_retry_count = 2
    /\ ~state.mqtt_connected
    /\ state.modbus_connected /\ state.model_160_verified

\* both collaborators were disconnected, in the order of the finally clause
BothDisconnected ==
    <<Call("modbus_client.disconnect", TRUE), Call("mqtt_publisher.disconnect", TRUE)>>

\* C17: wherever the run loop stands when the process is interrupted, control
\* goes to the finally clause, and run() exits only after disconnect() was
\* called on both collaborators: an error raised by the underlying close is not
\* propagated, closing a link that was never opened changes nothing, and
\* afterwards both collaborators report not connected.
C17_InterruptDisconnectsBoth ==
    [][/\ (interrupted' /\ ~interrupted) => (pc \in LoopPositions /\ pc' = "finally")
       /\ (pc = "finally" /\ pc' # pc)
          => /\ pc' = "done"
             /\ calls' = BothDisconnected
             /\ ~mb'.device /\ ~mb'.connected
             /\ ~pub'.connected
             /\ ~mb.device => mb' = mb
             /\ pub = MQTTPublisherInit => pub' = pub
       /\ (pc' = "done" /\ pc # "done") => pc = "finally"]_vars

\* run() has exited after an interrupt that found both links up
C17_Witness ==
    /\ pc = "done"
    /\ interrupted
    /\ calls = BothDisconnected
    /\ state.modbus_connected /\ state.mqtt_connected
    /\ ~mb.connected /\ ~mb.device
    /\ ~pub.connected

\* C18: no recoverable failure is fatal: whatever the collaborators return or
\* raise, run() stays in its loop, and it reaches the finally clause and exits
\* only after a process-level interrupt.
C18_OnlyInterruptLeavesLoop ==
    /\ pc \in LoopPositions \cup {"finally", "done"}
    /\ pc \in {"finally", "done"} => interrupted
    /\ ~interrupted => pc \in LoopPositions

\* the loop goes on after a failed read that followed two failed bus connects
\* and a failed verification
C18_Witness ==
    /\ pc = "schedule"
    /\ ~interrupted
    /\ PollCall
    /\ calls = ReadFailed
    /\ state.mqtt_retry_count = 2
    /\ prev.model_160_verified
    /\ now >= 4

ScheduleCall == op = "calculate_sleep_time"

\* C19: calculate_sleep_time called with next_due more than one interval behind
\* the clock (next_due - now < -interval) returns sleep 0 and next_due = now +
\* interval; called with next_due exactly one interval behind, or less, it does
\* not reset: it returns sleep = next_due - now and next_due + interval.
C19_SchedulerResync ==
    ScheduleCall
    => LET due == sched[1].due
           at  == sched[1].at
       IN IF due - at < -poll_interval
          THEN /\ sched[1].reset
               /\ sleep_time = Some(0)
               /\ next_poll_time = at + poll_interval
          ELSE /\ ~sched[1].reset
               /\ sleep_time = Some(due - at)
               /\ next_poll_time = due + poll_interval

\* a reset of the schedule: the poll was due more than one interval ago
C19_Witness ==
    /\ ScheduleCall
    /\ poll_interval = 2
    /\ sched[1].due - sched[1].at = -3
    /\ sched[1].reset
    /\ sleep_time = Some(0)
    /\ next_poll_time = now + 2

Max(a, b) == IF a >= b THEN a ELSE b

\* C20 as stated: the scheduler advances next_due by exactly the interval, and,
\* absent resync, the due times of the run loop's polls lie on the grid
\* start + k * interval.
C20_FixedPhaseGrid ==
    /\ (ScheduleCall /\ ~sched[1].reset)
       => next_poll_time = sched[1].due + poll_interval
    /\ (ScheduleCall /\ ~resynced)
       => /\ (sched[1].due - StartTime) % poll_interval = 0
          /\ (next_poll_time - StartTime) % poll_interval = 0

\* C20, amended: a scheduler call that does not reset advances next_due by
\* exactly the interval (old + interval, whatever the clock), and the loop then
\* sleeps max(old next_due - now, 0); next_due is otherwise set only by a failed
\* link step, to now + delay, and by a reset, to now + interval; so the due
\* times lie on the grid origin + k * interval, whose origin is the start, the
\* now + delay of the last failed link step or the clock of the last reset, and
\* they do not drift by the cycle's processing time.
C20_GridBetweenRebases ==
    [][/\ (pc = "schedule" /\ pc' \in LoopPositions \ {pc})
          => /\ ~sched'[1].reset => next_poll_time' = next_poll_time + poll_interval
             /\ sched'[1].reset => next_poll_time' = now + poll_interval
             /\ pc' = IF next_poll_time - now > 0 /\ ~sched'[1].reset
                      THEN "sleep" ELSE "modbus"
       /\ (pc = "sleep" /\ pc' \in LoopPositions \ {pc})
          => now' = now + Max(sched[1].due - sched[1].at, 0)
       /\ next_poll_time' # next_poll_time
          => \/ pc = "schedule"
             \/ /\ pc \in {"modbus", "mqtt"}
                /\ step_failed(ret')
                /\ next_poll_time' = now + Delay(ret')
       /\ grid_origin' # grid_origin
          => \/ pc = "schedule" /\ sched'[1].reset
             \/ pc \in {"modbus", "mqtt"} /\ step_failed(ret')
       /\ (next_poll_time' - grid_origin') % poll_interval = 0]_vars

\* a cycle whose work took one second, on a grid a failed link step anchored
\* at 1: due at 3, scheduled at 4, next due at 5
C20_Witness ==
    /\ ScheduleCall
    /\ poll_interval = 2
    /\ grid_origin = 1
    /\ ~resynced
    /\ sched[1] = [due |-> 3, at |-> 4, reset |-> FALSE]
    /\ next_poll_time = 5

\* the names the ten operating state codes are given
OperatingStateNames ==
    [n \in 1..10 |->
        CASE n = 1 -> "OFF"       [] n = 2 -> "SLEEPING" [] n = 3 -> "STARTING"
          [] n = 4 -> "MPPT"      [] n = 5 -> "THROTTLED"
          [] n = 6 -> "SHUTTING_DOWN"
          [] n = 7 -> "FAULT"     [] n = 8 -> "STANDBY"  [] n = 9 -> "TEST"
          [] n = 10 -> "RESERVED_10"]

\* C26: format_state is total: for every integer 1..10 it returns the fixed
\* name of that code, for every integer outside 1..10, 0 and negatives
\* included, it returns "unknown_" followed by the integer in decimal, and for
\* an absent value it returns "unknown".
C26_FormatStateTotal ==
    call.fn = "format_state"
    => IF call.arg = None
       THEN call.result = "unknown"
       ELSE IF call.arg[1] \in 1..10
            THEN call.result = OperatingStateNames[call.arg[1]]
            ELSE call.result = "unknown_" \o ToString(call.arg[1])

C26_Witness ==
    /\ call.fn = "format_state"
    /\ call.arg = Some(-11)
    /\ call.result = "unknown_-11"

\* the bit positions that have a table entry
KnownBits == {0, 1, 3, 5, 6, 7, 12, 13, 14, 15, 20, 21, 22}

\* the table's name of known bit position k
EventName(k) ==
    LET i == CHOOSE j \in 1..Len(EVENT_NAMES) : EVENT_NAMES[j][1] = k
    IN EVENT_NAMES[i][2]

\* the names of the bit positions of S, in ascending order of position,
\* separated by ", "
RECURSIVE AscendingNames(_)
AscendingNames(S) ==
    IF S = {} THEN ""
    ELSE LET k == CHOOSE x \in S : \A y \in S : x <= y IN
         IF S = {k} THEN EventName(k)
         ELSE EventName(k) \o ", " \o AscendingNames(S \ {k})

\* the known bit positions set in bitfield b
KnownSet(b) == {k \in KnownBits : (b \div (2 ^ k)) % 2 = 1}

\* C27: decode_events returns "unavailable" for an absent bitfield and
\* "No active events" for 0 and for a bitfield in which only bits without a
\* table entry are set; otherwise it returns the names of exactly the set bits
\* that have a table entry (positions 0, 1, 3, 5, 6, 7, 12, 13, 14, 15, 20, 21,
\* 22), each once, in ascending bit-position order, joined with ", ", and
\* nothing for unknown bits.
C27_DecodeEvents ==
    call.fn = "decode_events"
    => /\ {EVENT_NAMES[i][1] : i \in 1..Len(EVENT_NAMES)} = KnownBits
       /\ IF call.arg = None
          THEN call.result = "unavailable"
          ELSE IF KnownSet(call.arg[1]) = {}
               THEN call.result = "No active events"
               ELSE call.result = AscendingNames(KnownSet(call.arg[1]))

\* bits 2 (no entry), 12 and 13 and 22 are set
C27_Witness ==
    /\ call.fn = "decode_events"
    /\ call.arg = Some(4 + 4096 + 8192 + 4194304)
    /\ call.result = "BLOWN_FUSE, UNDER_TEMP, INPUT_OVER_CURRENT"

ReadCall == call.fn = "read_mppt_data"

\* the block read_mppt_data was called on has a reason to abort
Aborts(b) ==
    \/ ~b.device
    \/ ~b.has160
    \/ b.read_raises
    \/ b.count_raises
    \/ Len(b.module) < 1

\* s has every part of a snapshot of n modules
Complete(s, n) ==
    /\ DOMAIN s = {"mppt1", "mppt2", "total_power", "modules"}
    /\ DOMAIN s.mppt1 = {"voltage", "current", "power"}
    /\ DOMAIN s.mppt2 = {"voltage", "current", "power"}
    /\ Len(s.modules) = n
    /\ \A i \in 1..n :
         DOMAIN s.modules[i] = {"voltage", "current", "power", "diagnostics"}

\* C21: read_mppt_data returns either a complete snapshot or no snapshot: it
\* returns None when the client has no device, when model 160 is not present,
\* when the block read or the module count read raises and when the module
\* count is less than 1, and a complete snapshot otherwise.
C21_CompleteSnapshotOrNone ==
    ReadCall
    => /\ Aborts(call.arg) => call.result = None
       /\ ~Aborts(call.arg) => call.result # None
       /\ call.result # None => Complete(call.result[1], Len(call.arg.module))

\* the block read raised on a block of two healthy modules
C21_Witness ==
    /\ ReadCall
    /\ call.arg.read_raises
    /\ Len(call.arg.module) = 2
    /\ \A i \in 1..2 : ~module_read_raises(call.arg.module[i])
    /\ call.result = None

\* reading a core point of module m raises
CoreThrows(m) == raises(m.DCV) \/ raises(m.DCA) \/ raises(m.DCW)

\* reading some point of module m raises
AnyThrows(m) == CoreThrows(m) \/ raises(m.Tmp) \/ raises(m.DCSt) \/ raises(m.DCEvt)

\* the value a point holds, 0 when it holds none
InputValue(x) == IF x.k = "value" THEN x.v ELSE 0

\* the value a diagnostic point holds, None when it gives none
InputDiagnostic(x) == IF x.k = "value" THEN Some(x.v) ELSE None

\* the entry of a module whose points were all captured
InputEntry(m) ==
    [voltage |-> InputValue(m.DCV), current |-> InputValue(m.DCA),
     power |-> InputValue(m.DCW),
     diagnostics |->
        [temperature      |-> InputDiagnostic(m.Tmp),
         operating_state  |-> InputDiagnostic(m.DCSt),
         module_events    |-> InputDiagnostic(m.DCEvt),
         formatted_state  |-> format_state(InputDiagnostic(m.DCSt)),
         formatted_events |-> decode_events(InputDiagnostic(m.DCEvt))]]

\* the entry of a module that was not read
ZeroEntry ==
    [voltage |-> 0, current |-> 0, power |-> 0,
     diagnostics |->
        [temperature |-> None, operating_state |-> None, module_events |-> None,
         formatted_state |-> "unknown", formatted_events |-> "unavailable"]]

RECURSIVE SumOver(_, _)
SumOver(S, f) ==
    IF S = {} THEN 0
    ELSE LET i == CHOOSE x \in S : TRUE IN f[i] + SumOver(S \ {i}, f)

DiagnosticOf(entry, point) ==
    CASE point = "Tmp"   -> entry.diagnostics.temperature
      [] point = "DCSt"  -> entry.diagnostics.operating_state
      [] point = "DCEvt" -> entry.diagnostics.module_events

\* C23: when reading one diagnostic field of a module raises an exception (of
\* any kind) or the field is absent, the module's entry has None for that field
\* alone: the other two diagnostic fields and the module's voltage, current and
\* power are the values read.
C23_DiagnosticFieldIsolation ==
    (ReadCall /\ call.result # None)
    => \A i \in 1..Len(call.arg.module) :
         LET m     == call.arg.module[i]
             entry == call.result[1].modules[i]
         IN \A p \in DiagnosticFields :
              (~CoreThrows(m) /\ (raises(m[p]) \/ m[p] = Absent))
              => /\ DiagnosticOf(entry, p) = None
                 /\ \A q \in DiagnosticFields \ {p} :
                      DiagnosticOf(entry, q) = InputDiagnostic(m[q])
                 /\ entry.voltage = InputValue(m.DCV)
                 /\ entry.current = InputValue(m.DCA)
                 /\ entry.power = InputValue(m.DCW)

\* the indices of the modules of block b whose read did not fail
ReadModules(b) == {i \in 1..Len(b.module) : ~module_read_raises(b.module[i])}

\* the core values of module m as a channel
InputChannel(m) ==
    [voltage |-> InputValue(m.DCV), current |-> InputValue(m.DCA),
     power |-> InputValue(m.DCW)]

ChannelOf(entry) ==
    [voltage |-> entry.voltage, current |-> entry.current, power |-> entry.power]

\* C24: in a returned snapshot total_power is the sum of the module entries'
\* power, a missing power value and a failed module counting as 0, mppt1 has
\* the core values of module 0 and, when there is a second module, mppt2 has
\* the core values of module 1.
C24_TotalAndFirstTwoChannels ==
    (ReadCall /\ call.result # None)
    => LET b == call.arg
           s == call.result[1]
           N == Len(b.module)
           EntryPower == [i \in 1..N |-> s.modules[i].power]
           InputPower == [i \in 1..N |-> InputValue(b.module[i].DCW)]
       IN /\ s.total_power = SumOver(1..N, EntryPower)
          /\ s.total_power = SumOver(ReadModules(b), InputPower)
          /\ s.mppt1 = ChannelOf(s.modules[1])
          /\ 1 \in ReadModules(b) => s.mppt1 = InputChannel(b.module[1])
          /\ N >= 2 => s.mppt2 = ChannelOf(s.modules[2])
          /\ (N >= 2 /\ 2 \in ReadModules(b)) => s.mppt2 = InputChannel(b.module[2])

\* two modules with different values, the second without a power value
C24_Witness ==
    /\ ReadCall
    /\ call.result # None
    /\ Len(call.arg.module) = 2
    /\ call.arg.module[2].DCW = Nil
    /\ call.arg.module[1].DCW = Val(4000)
    /\ ReadModules(call.arg) = {1, 2}
    /\ call.result[1].total_power = 4000
    /\ call.result[1].mppt1.voltage = 400
    /\ call.result[1].mppt2 = [voltage |-> 380, current |-> 9, power |-> 0]

\* C25: a returned snapshot of a single module still has two channels: mppt2 is
\* the zero channel, total_power is the power of the one module, and the
\* modules list has one entry per module of the block.
C25_TwoChannelSlots ==
    (ReadCall /\ call.result # None)
    => LET b == call.arg
           s == call.result[1]
       IN /\ DOMAIN s.mppt1 = {"voltage", "current", "power"}
          /\ DOMAIN s.mppt2 = {"voltage", "current", "power"}
          /\ Len(s.modules) = Len(b.module)
          /\ Len(b.module) = 1
             => /\ s.mppt2 = [voltage |-> 0, current |-> 0, power |-> 0]
                /\ s.total_power = s.mppt1.power
                /\ s.total_power = s.modules[1].power

\* one healthy module
C25_Witness ==
    /\ ReadCall
    /\ Len(call.arg.module) = 1
    /\ ~AnyThrows(call.arg.module[1])
    /\ call.result # None
    /\ call.result[1].mppt1.power = 4000
    /\ call.result[1].mppt2.power = 0
    /\ call.result[1].total_power = 4000
    /\ Len(call.result[1].modules) = 1

\* C28: every DiagnosticData of a returned snapshot holds the formatted forms
\* of its own raw values: formatted_state is format_state(operating_state) and
\* formatted_events is decode_events(module_events).
C28_FormattedFromRaw ==
    (ReadCall /\ call.result # None)
    => \A i \in 1..Len(call.result[1].modules) :
         LET d == call.result[1].modules[i].diagnostics IN
         /\ d.formatted_state = format_state(d.operating_state)
         /\ d.formatted_events = decode_events(d.module_events)

\* a module in state 4 with event bits 0 and 1 set
C28_Witness ==
    /\ ReadCall
    /\ call.result # None
    /\ \E i \in 1..Len(call.result[1].modules) :
         LET d == call.result[1].modules[i].diagnostics IN
         /\ d.operating_state = Some(4)
         /\ d.module_events = Some(3)
         /\ d.formatted_state = "MPPT"
         /\ d.formatted_events = "GROUND_FAULT, INPUT_OVER_VOLTAGE"

PublishFailedBusConnected ==
    <<Call("read_mppt_data", TRUE), Call("publish_sensor_data", FALSE),
      Call("is_connected", TRUE)>>

\* C29: when publish_sensor_data fails and the publisher then reports itself
\* connected, handle_data_polling leaves the ConnectionState as it found it:
\* mqtt_connected stays true, no retry counter changes and the telemetry flags
\* stay true.
C29_FailedPublishBusConnected ==
    (PollCall /\ calls = PublishFailedBusConnected)
    => /\ state = prev
       /\ state.mqtt_connected
       /\ state.modbus_connected
       /\ state.model_160_verified
       /\ ret = None

\* a publish the broker refused while the publisher, connected and with a
\* device id, stays connected
C29_Witness ==
    /\ PollCall
    /\ calls = PublishFailedBusConnected
    /\ pub.connected
    /\ pub.device_id # None
    /\ state.mqtt_connected
    /\ state.device_info # None

PublishDiscoveryCall == call.fn = "publish_discovery"

PublishSensorDataCall == call.fn = "publish_sensor_data"

\* C30: publish_discovery and publish_sensor_data return failure without making
\* any publish call when the publisher is not connected, and publish_sensor_data
\* also when no device id was set by an earlier publish_discovery; in neither
\* case does the publisher change.
C30_RefusedWithoutSending ==
    /\ (PublishDiscoveryCall /\ ~call.arg.pub.connected)
       => /\ ~call.result.ok
          /\ call.result.published = <<>>
          /\ call.result.pub = call.arg.pub
    /\ (PublishSensorDataCall
        /\ (~call.arg.pub.connected \/ call.arg.pub.device_id = None))
       => /\ ~call.result.ok
          /\ call.result.published = <<>>
          /\ call.result.pub = call.arg.pub

\* a connected publisher without device id refuses sensor data although every
\* publish call would succeed
C30_Witness ==
    /\ PublishSensorDataCall
    /\ call.arg.pub.connected
    /\ call.arg.pub.device_id = None
    /\ \A i \in 1..Len(SENSORS) : call.arg.rcs[i] = "success"
    /\ ~call.result.ok
    /\ call.result.published = <<>>

\* the index of the first publish call of rcs that does not succeed, and
\* Len(SENSORS) + 1 when all succeed
FirstFailure(rcs) ==
    IF \A i \in 1..Len(SENSORS) : rcs[i] = "success"
    THEN Len(SENSORS) + 1
    ELSE CHOOSE i \in 1..Len(SENSORS) :
           /\ rcs[i] # "success"
           /\ \A j \in 1..(i - 1) : rcs[j] = "success"

\* the order of the claim
SensorOrder ==
    <<"pv1_voltage", "pv1_current", "pv1_power",
      "pv2_voltage", "pv2_current", "pv2_power", "total_power">>

\* the publish calls made are the first n messages of the fixed order, each on
\* the topic kind of the method and for the device id given
InOrder(published, n, topic, device_id) ==
    /\ Len(published) = n
    /\ \A i \in 1..n :
         /\ published[i].sensor_id = SensorOrder[i]
         /\ published[i].topic = topic
         /\ published[i].device_id = device_id

\* C31: a connected publish_discovery, and a connected publish_sensor_data with
\* a device id, publish their 7 messages in the order pv1 voltage, pv1 current,
\* pv1 power, pv2 voltage, pv2 current, pv2 power, total power, and return true
\* if and only if all 7 publish calls succeeded; at the first publish call that
\* does not succeed they return false and make no further publish call.
C31_OrderedUntilFirstFailure ==
    /\ (PublishDiscoveryCall /\ call.arg.pub.connected)
       => LET k == FirstFailure(call.arg.rcs) IN
          /\ call.result.ok <=> (k = 8)
          /\ InOrder(call.result.published, Min(k, 7), "config", Some(DeviceInfo))
    /\ (PublishSensorDataCall /\ call.arg.pub.connected
        /\ call.arg.pub.device_id # None)
       => LET k == FirstFailure(call.arg.rcs) IN
          /\ call.result.ok <=> (k = 8)
          /\ InOrder(call.result.published, Min(k, 7), "state", call.arg.pub.device_id)

\* sensor data whose fourth publish returns an error code while the later ones
\* would succeed: three messages and the failed one went out
C31_Witness ==
    /\ PublishSensorDataCall
    /\ call.arg.pub.connected
    /\ call.arg.pub.device_id # None
    /\ call.arg.rcs[4] = "error"
    /\ \A i \in (1..7) \ {4} : call.arg.rcs[i] = "success"
    /\ ~call.result.ok
    /\ Len(call.result.published) = 4
    /\ call.result.published[4].sensor_id = "pv2_voltage"

\* connect() returns in this step
Returns == At("return") /\ call'.at = "returned"

\* C32: connect() returns true only if _on_connect with reason code 0 set the
\* flag after connect() reset it; when the initiation fails or raises or the
\* wait times out it returns false with is_connected() false, and after a
\* timeout the network loop it started is stopped; _on_disconnect sets
\* is_connected() to false whenever it runs.
C32_ConnectOutcome ==
    [][/\ Returns
          => /\ call'.result = Some(TRUE) => call'.acked
             /\ call'.path \in {"initiation failed", "raised", "timeout"}
                => /\ call'.result = Some(FALSE)
                   /\ ~is_connected(call'.pub)
             /\ call'.path = "timeout" => ~call'.pub.loop
       /\ (ConnectCall /\ call' = connect_callback(call, "on_disconnect"))
          => ~is_connected(call'.pub)]_vars

\* C33: every verify_model_160 call of a run-loop step comes directly after a
\* connect() call of the same step that returned success, and a step that
\* follows a failed verification starts with connect(): verification is never
\* retried without a new connect and device scan.
C33_VerificationAfterFreshConnect ==
    ModbusCall
    => /\ \A i \in 1..Len(calls) :
            calls[i].m = "verify_model_160"
            => (i > 1 /\ calls[i - 1] = Call("connect", TRUE))
       /\ (prev.model_160_retry_count >= 1 /\ ~prev.modbus_connected)
          => (calls # <<>> /\ calls[1].m = "connect")

\* the retry after a failed verification: connect again, verify again
C33_Witness ==
    /\ pc # "caller"
    /\ ModbusCall
    /\ prev.model_160_retry_count >= 1
    /\ mb.device
    /\ calls = <<Call("connect", TRUE), Call("verify_model_160", TRUE),
                 Call("read_device_info", TRUE)>>

\* C34: at every return from handle_modbus_connection and from
\* handle_data_polling, modbus_connected and model_160_verified are equal.
C34_ConnectedEqualsVerified ==
    (ModbusCall \/ PollCall)
    => (state.modbus_connected <=> state.model_160_verified)

\* a poll whose read failed: both flags were set and both are cleared
C34_Witness ==
    /\ PollCall
    /\ calls = ReadFailed
    /\ prev.modbus_connected /\ prev.model_160_verified
    /\ ~state.modbus_connected /\ ~state.model_160_verified

\* C36: once ConnectionState.device_info holds a device identity, no later step
\* sets it back to absent.
C36_IdentityNeverLost ==
    prev.device_info # None => state.device_info # None

\* C40: the three retry counters are never negative, and the counter of a link
\* is 0 whenever the link is marked up.
C40_CountersZeroWhenUp ==
    /\ state.modbus_retry_count >= 0
    /\ state.model_160_retry_count >= 0
    /\ state.mqtt_retry_count >= 0
    /\ state.modbus_connected => state.modbus_retry_count = 0
    /\ state.model_160_verified => state.model_160_retry_count = 0
    /\ state.mqtt_connected => state.mqtt_retry_count = 0

\* the bus connects after two failed attempts while telemetry is up after
\* failures of its own
C40_Witness ==
    /\ MqttCall
    /\ prev.mqtt_retry_count = 2
    /\ state.mqtt_connected
    /\ state.mqtt_retry_count = 0
    /\ state.modbus_connected
    /\ state.model_160_verified
    /\ state.model_160_retry_count = 0

\* C37: mqtt_connected goes from true to false only in handle_data_polling,
\* after publish_sensor_data returned failure and is_connected() returned
\* false; an _on_disconnect callback leaves the ConnectionState as it is, and
\* while mqtt_connected is true handle_mqtt_connection makes no connect
\* attempt, whatever the publisher reports.
C37_BusDemotedOnlyByPolling ==
    /\ (prev.mqtt_connected /\ ~state.mqtt_connected)
       => (PollCall /\ calls = PublishFailedBusLost)
    /\ op = "on_disconnect" => (state = prev /\ ~is_connected(pub))
    /\ (MqttCall /\ prev.mqtt_connected)
       => (calls = <<>> /\ state = prev)

\* the broker was lost while the telemetry link is down: the bus step sees the
\* flag still set and does not connect
C37_Witness ==
    /\ MqttCall
    /\ prev.mqtt_connected
    /\ ~is_connected(pub)
    /\ ~state.modbus_connected
    /\ state.mqtt_connected
    /\ calls = <<>>

ConnectStep ==
    /\ pc = "modbus"
    /\ pc' \in LoopPositions \ {pc}
    /\ calls' # <<>>
    /\ calls'[1].m = "connect"

\* C39: the telemetry client holds at most one open device: in the run loop
\* connect() opens a new device only when the client holds no device that was
\* opened earlier and not closed.
C39_SingleDeviceHandle ==
    [][ConnectStep => ~mb.device]_vars

\* a snapshot went out to the bus in the last step
Published == PollCall /\ Called("publish_sensor_data", TRUE)

\* C35: if from some point on every collaborator call succeeds, the run loop
\* eventually publishes a telemetry snapshot to the bus, whatever failures
\* happened before that point.
C35_EventuallyPublishes ==
    [](~faults => <>Published)

====
